---- MODULE Spec2Model ----
(***************************************************************************)
(* A model of path.ts: the file-name validator (src/src/filename.ts), the  *)
(* Directory tree with Directory.build and fullPath, and the filesystem    *)
(* operations exists / mkdir / mkdirp (src/src/path.ts).                   *)
(*                                                                         *)
(* A string is a sequence of UTF-16 code units, as in JavaScript: length   *)
(* is Len, charCodeAt(i) is s[i+1].                                        *)
(***************************************************************************)
EXTENDS Integers, Sequences, FiniteSets, TLC

VARIABLES
    input,      \* the argument of the pure call under check (a string)
    output,     \* its result, or NotCalled
    nodes,      \* the heap of Directory and File objects: nodes[i] = [name, parent, kind], parent = 0 is undefined
    fs,         \* the filesystem: component list -> "none" | "dir" | "file"
    callers,    \* the asynchronous calls in flight, one record per caller
    env         \* what is outside the callers: the steps of other processes and the OS faults so far

vars == <<input, output, nodes, fs, callers, env>>

\* ------------------------------------------------------------------ results

Ok(v) == [success |-> TRUE, value |-> v]

Err(e) == [success |-> FALSE, error |-> e]

NotCalled == [called |-> FALSE]

\* a call that did not return: throw new ExhaustiveCaseError(value) left it
Thrown(value) == [success |-> FALSE, thrown |-> "ExhaustiveCaseError", error |-> value]

IsThrown(r) == "thrown" \in DOMAIN r

\* ------------------------------------------------------------------ strings

SLASH == 47

DOT == 46

NUL == 0

\* the high and the low surrogate of U+1F600, and two BMP units of 2 and 3 UTF-8 bytes
HI == 55357

LO == 56832

Includes(s, c) == \E i \in 1..Len(s) : s[i] = c

Repeat(u, n) == [i \in 1..(n * Len(u)) |-> u[((i - 1) % Len(u)) + 1]]

IsHighSurrogate(c) == c >= 55296 /\ c <= 56319

IsLowSurrogate(c) == c >= 56320 /\ c <= 57343

\* unit i is the first half of a surrogate pair
PairStart(s, i) ==
    /\ IsHighSurrogate(s[i])
    /\ i < Len(s)
    /\ IsLowSurrogate(s[i + 1])

\* unit i is the second half of a surrogate pair
PairEnd(s, i) ==
    /\ IsLowSurrogate(s[i])
    /\ i > 1
    /\ IsHighSurrogate(s[i - 1])

\* new TextEncoder().encode(name).length, unit by unit: a surrogate pair is encoded
\* in 4 bytes (counted at its first unit), a lone surrogate is replaced by U+FFFD
\* (3 bytes)
unitBytes(name, i) ==
    IF name[i] < 128 THEN 1
    ELSE IF name[i] < 2048 THEN 2
    ELSE IF PairStart(name, i) THEN 4
    ELSE IF PairEnd(name, i) THEN 0
    ELSE 3

RECURSIVE encodedBytes(_, _, _)
encodedBytes(name, lo, hi) ==
    IF lo > hi THEN 0
    ELSE IF lo = hi THEN unitBytes(name, lo)
    ELSE LET mid == (lo + hi) \div 2
         IN  encodedBytes(name, lo, mid) + encodedBytes(name, mid + 1, hi)

utf8ByteLength(name) == encodedBytes(name, 1, Len(name))

\* ------------------------------------------------------------------ validator

MaxNameLength == 255

MaxControlCode == 31

windowsInvalidChars == <<34, 42, 58, 60, 62, 63, 92, 124>>

\* the characters in the order they first occur in the name
foundInvalidChars_inOrderOfOccurrence(name) ==
    LET at == {i \in 1..Len(name) :
                  /\ Includes(windowsInvalidChars, name[i])
                  /\ \A j \in 1..(i - 1) : name[j] # name[i]}
        nth(k) == CHOOSE i \in at : Cardinality({j \in at : j <= i}) = k
    IN  [k \in 1..Cardinality(at) |-> name[nth(k)]]

foundInvalidChars(name) ==
    SelectSeq(windowsInvalidChars, LAMBDA char : Includes(name, char))

emptyFindings(name) ==
    IF Len(name) = 0 THEN <<[kind |-> "EMPTY"]>> ELSE <<>>

tooLongFindings_offByOne(name) ==
    IF Len(name) >= MaxNameLength
    THEN <<[kind |-> "TOO_LONG", max |-> MaxNameLength, actual |-> Len(name)]>>
    ELSE <<>>

tooLongFindings(name) ==
    IF Len(name) > MaxNameLength
    THEN <<[kind |-> "TOO_LONG", max |-> MaxNameLength, actual |-> Len(name)]>>
    ELSE <<>>

\* name.startsWith(".") in place of the two comparisons
reservedFindings_dotPrefix(name) ==
    IF Len(name) > 0 /\ name[1] = DOT
    THEN <<[kind |-> "RESERVED", name |-> name]>>
    ELSE <<>>

reservedFindings(name) ==
    IF name = <<DOT>> \/ name = <<DOT, DOT>>
    THEN <<[kind |-> "RESERVED", name |-> name]>>
    ELSE <<>>

separatorFindings(name) ==
    IF Includes(name, SLASH) THEN <<[kind |-> "CONTAINS_PATH_SEPARATOR"]>> ELSE <<>>

nullFindings(name) ==
    IF Includes(name, NUL) THEN <<[kind |-> "CONTAINS_NULL"]>> ELSE <<>>

invalidCharFindings(name) ==
    IF Len(foundInvalidChars(name)) > 0
    THEN <<[kind |-> "INVALID_CHAR", chars |-> foundInvalidChars(name),
            filesystem |-> "FAT32/exFAT/NTFS"]>>
    ELSE <<>>

IsControl(code) == code >= 0 /\ code <= MaxControlCode

\* the loop with its break: the finding of the first control character only
controlCharFindings_nobreak(name) ==
    LET idx == {i \in 1..Len(name) : IsControl(name[i])}
        nth(k) == CHOOSE i \in idx : Cardinality({j \in idx : j <= i}) = k
    IN  [k \in 1..Cardinality(idx) |-> [kind |-> "CONTROL_CHAR", code |-> name[nth(k)]]]

\* the loop without its break, keeping the last finding
controlCharFindings_reportsLast(name) ==
    LET idx == {i \in 1..Len(name) : IsControl(name[i])}
    IN  IF idx = {} THEN <<>>
        ELSE LET last == CHOOSE i \in idx : \A j \in idx : i >= j
             IN  <<[kind |-> "CONTROL_CHAR", code |-> name[last]]>>

\* the loop starting at code 1: NUL left to the CONTAINS_NULL rule
controlCharFindings_skipsNul(name) ==
    LET idx == {i \in 1..Len(name) : name[i] >= 1 /\ name[i] <= MaxControlCode}
    IN  IF idx = {} THEN <<>>
        ELSE LET first == CHOOSE i \in idx : \A j \in idx : i <= j
             IN  <<[kind |-> "CONTROL_CHAR", code |-> name[first]]>>

controlCharFindings(name) ==
    LET idx == {i \in 1..Len(name) : IsControl(name[i])}
    IN  IF idx = {} THEN <<>>
        ELSE LET first == CHOOSE i \in idx : \A j \in idx : i <= j
             IN  <<[kind |-> "CONTROL_CHAR", code |-> name[first]]>>

utf8TooLongFindings_countsUnits(name) ==
    IF Len(name) > MaxNameLength
    THEN <<[kind |-> "UTF8_TOO_LONG", max |-> MaxNameLength, actual |-> Len(name)]>>
    ELSE <<>>

utf8TooLongFindings(name) ==
    IF utf8ByteLength(name) > MaxNameLength
    THEN <<[kind |-> "UTF8_TOO_LONG", max |-> MaxNameLength,
            actual |-> utf8ByteLength(name)]>>
    ELSE <<>>

fileNameValidate(name) ==
    LET errors == emptyFindings(name) \o tooLongFindings(name)
                    \o reservedFindings(name) \o separatorFindings(name)
                    \o nullFindings(name) \o invalidCharFindings(name)
                    \o controlCharFindings(name) \o utf8TooLongFindings(name)
    IN  IF Len(errors) # 0 THEN Err(errors) ELSE Ok(name)

\* ------------------------------------------------------------------ the plain-string validator

\* `${n}` of a number: its decimal digits
RECURSIVE Decimal(_)
Decimal(n) == IF n < 10 THEN <<48 + n>> ELSE Append(Decimal(n \div 10), 48 + (n % 10))

\* chars.join(sep)
RECURSIVE join(_, _)
join(chars, sep) ==
    IF Len(chars) = 0 THEN <<>>
    ELSE IF Len(chars) = 1 THEN <<chars[1]>>
    ELSE <<chars[1]>> \o sep \o join(Tail(chars), sep)

\* "Name exceeds "
ExceedsText ==
    <<78, 97, 109, 101, 32, 101, 120, 99, 101, 101, 100, 115, 32>>

\* " characters ("
CharactersOpenText ==
    <<32, 99, 104, 97, 114, 97, 99, 116, 101, 114, 115, 32, 40>>

\* " characters)"
CharactersCloseText ==
    <<32, 99, 104, 97, 114, 97, 99, 116, 101, 114, 115, 41>>

\* "Name cannot be empty"
EmptyMessage ==
    <<78, 97, 109, 101, 32, 99, 97, 110, 110, 111, 116, 32, 98, 101, 32, 101, 109, 112,
      116, 121>>

\* '" is a reserved name', the closing quote included
ReservedText ==
    <<34, 32, 105, 115, 32, 97, 32, 114, 101, 115, 101, 114, 118, 101, 100, 32, 110, 97,
      109, 101>>

\* 'Name cannot contain "/" character'
SeparatorMessage ==
    <<78, 97, 109, 101, 32, 99, 97, 110, 110, 111, 116, 32, 99, 111, 110, 116, 97, 105,
      110, 32, 34, 47, 34, 32, 99, 104, 97, 114, 97, 99, 116, 101, 114>>

\* "Name cannot contain null character"
NullMessage ==
    <<78, 97, 109, 101, 32, 99, 97, 110, 110, 111, 116, 32, 99, 111, 110, 116, 97, 105,
      110, 32, 110, 117, 108, 108, 32, 99, 104, 97, 114, 97, 99, 116, 101, 114>>

\* "Name contains characters invalid on "
InvalidCharsText ==
    <<78, 97, 109, 101, 32, 99, 111, 110, 116, 97, 105, 110, 115, 32, 99, 104, 97, 114,
      97, 99, 116, 101, 114, 115, 32, 105, 110, 118, 97, 108, 105, 100, 32, 111, 110, 32>>

\* "FAT32/exFAT/NTFS"
WindowsFilesystemsText ==
    <<70, 65, 84, 51, 50, 47, 101, 120, 70, 65, 84, 47, 78, 84, 70, 83>>

\* "Name contains control character (code "
ControlOpenText ==
    <<78, 97, 109, 101, 32, 99, 111, 110, 116, 97, 105, 110, 115, 32, 99, 111, 110, 116,
      114, 111, 108, 32, 99, 104, 97, 114, 97, 99, 116, 101, 114, 32, 40, 99, 111, 100,
      101, 32>>

\* ") which is invalid on exFAT"
ControlCloseText ==
    <<41, 32, 119, 104, 105, 99, 104, 32, 105, 115, 32, 105, 110, 118, 97, 108, 105, 100,
      32, 111, 110, 32, 101, 120, 70, 65, 84>>

\* " UTF-8 bytes for APFS ("
BytesOpenText ==
    <<32, 85, 84, 70, 45, 56, 32, 98, 121, 116, 101, 115, 32, 102, 111, 114, 32, 65, 80,
      70, 83, 32, 40>>

\* " bytes)"
BytesCloseText ==
    <<32, 98, 121, 116, 101, 115, 41>>

tooLongMessages(name) ==
    IF Len(name) > MaxNameLength
    THEN <<ExceedsText \o Decimal(MaxNameLength) \o CharactersOpenText
             \o Decimal(Len(name)) \o CharactersCloseText>>
    ELSE <<>>

emptyMessages(name) ==
    IF Len(name) = 0 THEN <<EmptyMessage>> ELSE <<>>

reservedMessages(name) ==
    IF name = <<DOT>> \/ name = <<DOT, DOT>>
    THEN <<<<34>> \o name \o ReservedText>>
    ELSE <<>>

separatorMessages(name) ==
    IF Includes(name, SLASH) THEN <<SeparatorMessage>> ELSE <<>>

nullMessages(name) ==
    IF Includes(name, NUL) THEN <<NullMessage>> ELSE <<>>

invalidCharMessages(name) ==
    IF Len(foundInvalidChars(name)) > 0
    THEN <<InvalidCharsText \o WindowsFilesystemsText \o <<58, 32>>
             \o join(foundInvalidChars(name), <<32>>)>>
    ELSE <<>>

controlCharMessages(name) ==
    LET idx == {i \in 1..Len(name) : IsControl(name[i])}
    IN  IF idx = {} THEN <<>>
        ELSE LET first == CHOOSE i \in idx : \A j \in idx : i <= j
             IN  <<ControlOpenText \o Decimal(name[first]) \o ControlCloseText>>

utf8TooLongMessages(name) ==
    IF utf8ByteLength(name) > MaxNameLength
    THEN <<ExceedsText \o Decimal(MaxNameLength) \o BytesOpenText
             \o Decimal(utf8ByteLength(name)) \o BytesCloseText>>
    ELSE <<>>

\* the byte limit tested before the control characters
validate_utf8BeforeControl(name) ==
    tooLongMessages(name) \o emptyMessages(name) \o reservedMessages(name)
        \o separatorMessages(name) \o nullMessages(name) \o invalidCharMessages(name)
        \o utf8TooLongMessages(name) \o controlCharMessages(name)

\* validate(name): string[], the length limit tested before the empty name
validate(name) ==
    tooLongMessages(name) \o emptyMessages(name) \o reservedMessages(name)
        \o separatorMessages(name) \o nullMessages(name) \o invalidCharMessages(name)
        \o controlCharMessages(name) \o utf8TooLongMessages(name)

\* ------------------------------------------------------------------ inputs of the validator

MaxPrefixLen == 2

Alphabet == {NUL, 1, 31, 32, 34, 42, DOT, SLASH, 63, 97, 124, 233, 8364, HI, LO}

PadUnits == {<<97>>, <<233>>, <<8364>>, <<HI, LO>>}

PadCounts == {63, 64, 85, 86, 127, 128, 254, 255, 256}

Prefixes == UNION {[1..n -> Alphabet] : n \in 0..MaxPrefixLen}

ShortPrefixes == UNION {[1..n -> Alphabet] : n \in 0..(MaxPrefixLen - 1)}

\* short names of every shape, and names around the two length limits
Names ==
    Prefixes \cup {p \o Repeat(u, n) : p \in ShortPrefixes, u \in PadUnits, n \in PadCounts}

\* ------------------------------------------------------------------ the validator under check

InitValidate ==
    /\ input \in Names
    /\ output = NotCalled
    /\ nodes = <<>>
    /\ fs = <<>>
    /\ callers = <<>>
    /\ env = <<>>

Validate ==
    /\ ~output.called
    /\ output' = IF "messages" \in DOMAIN output
                  THEN [called |-> TRUE, result |-> fileNameValidate(input),
                        messages |-> output.messages]
                  ELSE [called |-> TRUE, result |-> fileNameValidate(input)]
    /\ UNCHANGED <<input, nodes, fs, callers, env>>

\* one call of the plain-string validator on the same name
ValidateStrings ==
    /\ "messages" \notin DOMAIN output
    /\ output' = IF output.called
                  THEN [called |-> TRUE, result |-> output.result,
                        messages |-> validate(input)]
                  ELSE [called |-> FALSE, messages |-> validate(input)]
    /\ UNCHANGED <<input, nodes, fs, callers, env>>

NextValidate ==
    \/ Validate
    \/ ValidateStrings

SpecValidate == InitValidate /\ [][NextValidate]_vars

\* ------------------------------------------------------------------ Directory

StartsWith(s, c) == Len(s) > 0 /\ s[1] = c

EndsWith(s, c) == Len(s) > 0 /\ s[Len(s)] = c

\* path.split("/"): the pieces between the separators, the empty ones included
Split(s, c) ==
    LET at == {i \in 1..Len(s) : s[i] = c}
        n == Cardinality(at)
        \* the k-th separator, with 0 before the string and Len + 1 after it
        cut(k) == IF k = 0 THEN 0
                  ELSE IF k = n + 1 THEN Len(s) + 1
                  ELSE CHOOSE i \in at : Cardinality({j \in at : j <= i}) = k
    IN  [k \in 1..(n + 1) |-> SubSeq(s, cut(k - 1) + 1, cut(k) - 1)]

\* new Directory(name, parent) on the heap: parent = 0 is undefined
Undefined == 0

NewDirectory(heap, name, parent) ==
    Append(heap, [name |-> name, parent |-> parent, kind |-> "Directory"])

\* new File(name, parent) on the heap
NewFile(heap, name, parent) ==
    Append(heap, [name |-> name, parent |-> parent, kind |-> "File"])

\* the getter: parentFullPath + joiner + name, "/" for a node without parent
RECURSIVE fullPath_noJoinerTest(_, _)
fullPath_noJoinerTest(heap, d) ==
    IF heap[d].parent = Undefined THEN <<SLASH>>
    ELSE fullPath_noJoinerTest(heap, heap[d].parent) \o <<SLASH>> \o heap[d].name

RECURSIVE fullPath(_, _)
fullPath(heap, d) ==
    IF heap[d].parent = Undefined THEN <<SLASH>>
    ELSE LET parentFullPath == fullPath(heap, heap[d].parent)
             joiner == IF EndsWith(parentFullPath, SLASH) THEN <<>> ELSE <<SLASH>>
         IN  parentFullPath \o joiner \o heap[d].name

\* the reducer of Directory.build; st = [heap, acc], acc the accumulated Result
reducer_dropsEarlier(st, pathSegement) ==
    LET name == fileNameValidate(pathSegement)
    IN  IF ~name.success
        THEN [heap |-> st.heap,
              acc |-> Err([kind |-> "INVALID_PATH_SEGMENT",
                           pathSegmentErrors |-> <<(<<pathSegement, name.error>>)>>])]
        ELSE IF ~st.acc.success THEN st
        ELSE [heap |-> NewDirectory(st.heap, name.value, st.acc.value),
              acc |-> Ok(Len(st.heap) + 1)]

reducer_parentless(st, pathSegement) ==
    LET name == fileNameValidate(pathSegement)
    IN  IF ~name.success
        THEN [heap |-> st.heap,
              acc |-> Err([kind |-> "INVALID_PATH_SEGMENT",
                           pathSegmentErrors |->
                               (IF ~st.acc.success THEN st.acc.error.pathSegmentErrors
                                ELSE <<>>) \o <<(<<pathSegement, name.error>>)>>])]
        ELSE IF ~st.acc.success THEN st
        ELSE [heap |-> NewDirectory(st.heap, name.value, Undefined),
              acc |-> Ok(Len(st.heap) + 1)]

reducer(st, pathSegement) ==
    LET name == fileNameValidate(pathSegement)
    IN  IF ~name.success
        THEN LET pathSegmentError == <<pathSegement, name.error>>
             IN  IF ~st.acc.success
                 THEN [heap |-> st.heap,
                       acc |-> Err([kind |-> "INVALID_PATH_SEGMENT",
                                    pathSegmentErrors |->
                                        st.acc.error.pathSegmentErrors
                                            \o <<pathSegmentError>>])]
                 ELSE [heap |-> st.heap,
                       acc |-> Err([kind |-> "INVALID_PATH_SEGMENT",
                                    pathSegmentErrors |-> <<pathSegmentError>>])]
        ELSE IF ~st.acc.success THEN st
        ELSE [heap |-> NewDirectory(st.heap, name.value, st.acc.value),
              acc |-> Ok(Len(st.heap) + 1)]

\* children.reduce(reducer, initial), left to right
RECURSIVE reduce(_, _)
reduce(children, initial) ==
    IF children = <<>> THEN initial
    ELSE reduce(Tail(children), reducer(initial, Head(children)))

\* the trailing-slash test made after the segments were reduced
build_validatesSegmentsFirst(heap, path) ==
    IF ~StartsWith(path, SLASH)
    THEN [heap |-> heap, acc |-> Err([kind |-> "NOT_ABSOLUTE_PATH", path |-> path])]
    ELSE IF path = <<SLASH>>
    THEN [heap |-> NewDirectory(heap, <<>>, Undefined), acc |-> Ok(Len(heap) + 1)]
    ELSE LET children == Tail(Split(path, SLASH))
             reduced == reduce(children,
                               [heap |-> NewDirectory(heap, <<>>, Undefined),
                                acc |-> Ok(Len(heap) + 1)])
         IN  IF ~reduced.acc.success THEN reduced
             ELSE IF EndsWith(path, SLASH)
             THEN [heap |-> heap,
                   acc |-> Err([kind |-> "INVALID_TRAILING_SLASH", path |-> path])]
             ELSE reduced

\* Directory.build(path) on the heap: [heap, acc] with acc the returned Result,
\* whose value is the index of the Directory
build(heap, path) ==
    IF ~StartsWith(path, SLASH)
    THEN [heap |-> heap, acc |-> Err([kind |-> "NOT_ABSOLUTE_PATH", path |-> path])]
    ELSE IF path = <<SLASH>>
    THEN [heap |-> NewDirectory(heap, <<>>, Undefined), acc |-> Ok(Len(heap) + 1)]
    ELSE IF EndsWith(path, SLASH)
    THEN [heap |-> heap, acc |-> Err([kind |-> "INVALID_TRAILING_SLASH", path |-> path])]
    ELSE LET children == Tail(Split(path, SLASH))
         IN  reduce(children,
                    [heap |-> NewDirectory(heap, <<>>, Undefined), acc |-> Ok(Len(heap) + 1)])

\* d.directory(name) on the heap: [heap, acc], acc the returned Result
directory(heap, d, name) ==
    LET validatedName == fileNameValidate(name)
    IN  IF ~validatedName.success
        THEN [heap |-> heap, acc |-> Err(validatedName.error)]
        ELSE [heap |-> NewDirectory(heap, validatedName.value, d),
              acc |-> Ok(Len(heap) + 1)]

\* the fullPath getter of a File f, whose parent is a Directory
fileFullPath_noJoinerTest(heap, f) ==
    fullPath(heap, heap[f].parent) \o <<SLASH>> \o heap[f].name

fileFullPath(heap, f) ==
    LET parentFullPath == fullPath(heap, heap[f].parent)
        joiner == IF EndsWith(parentFullPath, SLASH) THEN <<>> ELSE <<SLASH>>
    IN  parentFullPath \o joiner \o heap[f].name

\* File.build(name, parent) on the heap: [heap, acc], acc the returned Result
fileBuild_skipsValidation(heap, name, parent) ==
    [heap |-> NewFile(heap, name, parent), acc |-> Ok(Len(heap) + 1)]

fileBuild_detached(heap, name, parent) ==
    LET nameResult == fileNameValidate(name)
    IN  IF ~nameResult.success
        THEN [heap |-> heap, acc |-> Err(nameResult.error)]
        ELSE [heap |-> NewFile(heap, name, heap[parent].parent), acc |-> Ok(Len(heap) + 1)]

fileBuild(heap, name, parent) ==
    LET nameResult == fileNameValidate(name)
    IN  IF ~nameResult.success
        THEN [heap |-> heap, acc |-> Err(nameResult.error)]
        ELSE [heap |-> NewFile(heap, name, parent), acc |-> Ok(Len(heap) + 1)]

\* d.file(name) on the heap
file(heap, d, name) == fileBuild(heap, name, d)

\* ------------------------------------------------------------------ inputs of Directory.build

MaxPathLen == 6

STAR == 42

PathAlphabet == {SLASH, 97, 98, STAR, DOT}

Paths == UNION {[1..n -> PathAlphabet] : n \in 0..MaxPathLen}

\* ------------------------------------------------------------------ Directory.build under check

InitBuild ==
    /\ input \in Paths
    /\ output = NotCalled
    /\ nodes = <<>>
    /\ fs = <<>>
    /\ callers = <<>>
    /\ env = <<>>

Build ==
    /\ ~output.called
    /\ LET b == build(nodes, input)
       IN  /\ nodes' = b.heap
           /\ output' = [called |-> TRUE, result |-> b.acc, read |-> FALSE,
                          fullPath |-> <<>>]
    /\ UNCHANGED <<input, fs, callers, env>>

\* reading the fullPath getter of the Directory that Build returned
GetFullPath ==
    /\ output.called
    /\ output.result.success
    /\ ~output.read
    /\ output' = [output EXCEPT !.read = TRUE,
                                 !.fullPath = fullPath(nodes, output.result.value)]
    /\ UNCHANGED <<input, nodes, fs, callers, env>>

NextBuild == Build \/ GetFullPath

SpecBuild == InitBuild /\ [][NextBuild]_vars

\* ------------------------------------------------------------------ the tree of Directory and File objects

MaxTreeOps == 4

\* the paths given to Directory.build and the names given to directory() and file():
\* legal ones and ones the validator rejects
TreePaths ==
    {<<SLASH>>, <<SLASH, 97>>, <<SLASH, 97, SLASH, 98>>, <<SLASH, 97, SLASH, STAR>>,
     <<97, SLASH>>}

TreeNames == {<<97>>, <<98, DOT>>, <<>>, <<STAR, SLASH>>}

InitTree ==
    /\ input = <<>>
    /\ output = [called |-> FALSE, op |-> "none", on |-> Undefined,
                 result |-> Ok(Undefined), text |-> <<>>, ops |-> 0]
    /\ nodes = <<>>
    /\ fs = <<>>
    /\ callers = <<>>
    /\ env = <<>>

Returns(op, d, b) ==
    [called |-> TRUE, op |-> op, on |-> d, result |-> b.acc, text |-> <<>>,
     ops |-> output.ops + 1]

\* Directory.build(path)
TreeBuild(path) ==
    /\ output.ops < MaxTreeOps
    /\ input' = path
    /\ nodes' = build(nodes, path).heap
    /\ output' = Returns("build", Undefined, build(nodes, path))
    /\ UNCHANGED <<fs, callers, env>>

\* d.directory(name) on a Directory d
TreeDirectory(d, name) ==
    /\ output.ops < MaxTreeOps
    /\ nodes[d].kind = "Directory"
    /\ input' = name
    /\ nodes' = directory(nodes, d, name).heap
    /\ output' = Returns("directory", d, directory(nodes, d, name))
    /\ UNCHANGED <<fs, callers, env>>

\* d.file(name) on a Directory d
TreeFile(d, name) ==
    /\ output.ops < MaxTreeOps
    /\ nodes[d].kind = "Directory"
    /\ input' = name
    /\ nodes' = file(nodes, d, name).heap
    /\ output' = Returns("file", d, file(nodes, d, name))
    /\ UNCHANGED <<fs, callers, env>>

\* reading n.fullPath
TreeFullPath(n) ==
    /\ output.ops < MaxTreeOps
    /\ input' = <<>>
    /\ output' = [called |-> TRUE, op |-> "fullPath", on |-> n, result |-> Ok(n),
                  text |-> IF nodes[n].kind = "File" THEN fileFullPath(nodes, n)
                           ELSE fullPath(nodes, n),
                  ops |-> output.ops + 1]
    /\ UNCHANGED <<nodes, fs, callers, env>>

NextTree ==
    \/ \E path \in TreePaths : TreeBuild(path)
    \/ \E d \in 1..Len(nodes), name \in TreeNames : TreeDirectory(d, name)
    \/ \E d \in 1..Len(nodes), name \in TreeNames : TreeFile(d, name)
    \/ \E n \in 1..Len(nodes) : TreeFullPath(n)

SpecTree == InitTree /\ [][NextTree]_vars

\* ------------------------------------------------------------------ the OS interface

\* the text exists() looks for in the message of a failed Deno.stat: "Not a directory"
NotADirectoryText ==
    <<78, 111, 116, 32, 97, 32, 100, 105, 114, 101, 99, 116, 111, 114, 121>>

\* the Directory objects the filesystem calls are made on: Directory.build("/a/b/c")
\* and a sibling branch, directory(name) of its "/a", whose name is a legal file
\* name that reads like a piece of an OS message: "/a/Not a directory"
PathABC == <<SLASH, 97, SLASH, 98, SLASH, 99>>

NameD == NotADirectoryText

NameC == <<99>>

\* the objects the filesystem calls are made on: the Directory chain of "/a/b/c",
\* the sibling Directory of "/a", and the File "c" of "/a/b", which names the same
\* path as the Directory "/a/b/c"
FsHeap ==
    LET abc == build(<<>>, PathABC)
        b == abc.heap[abc.acc.value].parent
        a == abc.heap[b].parent
    IN  file(directory(abc.heap, a, NameD).heap, b, NameC).heap

\* the fullPath of the node n, by the getter of its class
pathOfNode(heap, n) ==
    IF heap[n].kind = "File" THEN fileFullPath(heap, n) ELSE fullPath(heap, n)

\* how the OS reads a path string: its non-empty components
Components(path) == SelectSeq(Split(path, SLASH), LAMBDA seg : seg # <<>>)

FsPaths == {Components(pathOfNode(FsHeap, d)) : d \in 1..Len(FsHeap)}

ParentOf(comps) == SubSeq(comps, 1, Len(comps) - 1)

IsBelow(q, comps) == Len(q) >= Len(comps) /\ SubSeq(q, 1, Len(comps)) = comps

\* an entry exists only inside a directory; the root is a directory
Consistent(f) ==
    /\ f[<<>>] = "dir"
    /\ \A q \in FsPaths : (q # <<>> /\ f[q] # "none") => f[ParentOf(q)] = "dir"

FsStates == {f \in [FsPaths -> {"none", "dir", "file"}] : Consistent(f)}

\* the texts of the OS errors, as strings of code units
\* "File exists (os error 17)"
EEXIST ==
    <<70, 105, 108, 101, 32, 101, 120, 105, 115, 116, 115, 32, 40, 111, 115, 32, 101, 114,
      114, 111, 114, 32, 49, 55, 41>>

\* "No such file or directory (os error 2)"
ENOENT ==
    <<78, 111, 32, 115, 117, 99, 104, 32, 102, 105, 108, 101, 32, 111, 114, 32, 100, 105,
      114, 101, 99, 116, 111, 114, 121, 32, 40, 111, 115, 32, 101, 114, 114, 111, 114, 32,
      50, 41>>

\* "Not a directory (os error 20)"
ENOTDIR ==
    <<78, 111, 116, 32, 97, 32, 100, 105, 114, 101, 99, 116, 111, 114, 121, 32, 40, 111,
      115, 32, 101, 114, 114, 111, 114, 32, 50, 48, 41>>

\* "Permission denied (os error 13)"
EACCES ==
    <<80, 101, 114, 109, 105, 115, 115, 105, 111, 110, 32, 100, 101, 110, 105, 101, 100,
      32, 40, 111, 115, 32, 101, 114, 114, 111, 114, 32, 49, 51, 41>>

\* "Input/output error (os error 5)"
EIO ==
    <<73, 110, 112, 117, 116, 47, 111, 117, 116, 112, 117, 116, 32, 101, 114, 114, 111,
      114, 32, 40, 111, 115, 32, 101, 114, 114, 111, 114, 32, 53, 41>>

\* "Is a directory (os error 21)"
EISDIR ==
    <<73, 115, 32, 97, 32, 100, 105, 114, 101, 99, 116, 111, 114, 121, 32, 40, 111, 115,
      32, 101, 114, 114, 111, 114, 32, 50, 49, 41>>

\* the names of the OS calls in a message: "readfile", "writefile", "stat", "mkdir"
ReadCall == <<114, 101, 97, 100, 102, 105, 108, 101>>

WriteCall == <<119, 114, 105, 116, 101, 102, 105, 108, 101>>

StatCall == <<115, 116, 97, 116>>

MkdirCall == <<109, 107, 100, 105, 114>>

\* error.message of a failed call: the text of the OS error, the call and the path
\* it was made on, as in "Permission denied (os error 13): stat '/a/b'"
ErrorMessage(text, call, path) ==
    text \o <<58, 32>> \o call \o <<32, 39>> \o path \o <<39>>

\* errorMessage.includes(text): text occurs somewhere in the message
MessageIncludes(message, text) ==
    \E i \in 1..(Len(message) - Len(text) + 1) :
        SubSeq(message, i, i + Len(text) - 1) = text

Raised(class, message) == [class |-> class, isDirectory |-> FALSE, message |-> message]

Returned(isDirectory) == [class |-> "Ok", isDirectory |-> isDirectory, message |-> <<>>]

\* what stops the walk to the parent of comps: a missing or a non-directory component
WalkError(f, comps) ==
    LET bad == {k \in 0..(Len(comps) - 1) : f[SubSeq(comps, 1, k)] # "dir"}
    IN  IF bad = {} THEN "none"
        ELSE LET k == CHOOSE i \in bad : \A j \in bad : i <= j
             IN  IF f[SubSeq(comps, 1, k)] = "none" THEN "NotFound" ELSE "NotADirectory"

\* Deno.stat(path) in the filesystem f
OsStat(f, path) ==
    LET comps == Components(path)
    IN  IF WalkError(f, comps) = "NotFound"
        THEN Raised("NotFound", ErrorMessage(ENOENT, StatCall, path))
        ELSE IF WalkError(f, comps) = "NotADirectory"
        THEN Raised("NotADirectory", ErrorMessage(ENOTDIR, StatCall, path))
        ELSE IF f[comps] = "none"
        THEN Raised("NotFound", ErrorMessage(ENOENT, StatCall, path))
        ELSE Returned(f[comps] = "dir")

\* Deno.mkdir(path) in the filesystem f: the outcome and the filesystem after it
OsMkdir(f, path) ==
    LET comps == Components(path)
    IN  IF WalkError(f, comps) = "NotFound"
        THEN [outcome |-> Raised("NotFound", ErrorMessage(ENOENT, MkdirCall, path)),
              fs |-> f]
        ELSE IF WalkError(f, comps) = "NotADirectory"
        THEN [outcome |-> Raised("NotADirectory", ErrorMessage(ENOTDIR, MkdirCall, path)),
              fs |-> f]
        ELSE IF f[comps] # "none"
        THEN [outcome |-> Raised("AlreadyExists", ErrorMessage(EEXIST, MkdirCall, path)),
              fs |-> f]
        ELSE [outcome |-> Returned(TRUE), fs |-> [f EXCEPT ![comps] = "dir"]]

\* the texts a file may hold and write() may be given: "" and "hi"
Texts == {<<>>, <<104, 105>>}

Delivered(content) ==
    [class |-> "Ok", isDirectory |-> FALSE, message |-> <<>>, content |-> content]

\* Deno.readTextFile(path) in the filesystem f, content being what the file holds
OsReadTextFile(f, path, content) ==
    LET comps == Components(path)
    IN  IF WalkError(f, comps) = "NotFound"
        THEN Raised("NotFound", ErrorMessage(ENOENT, ReadCall, path))
        ELSE IF WalkError(f, comps) = "NotADirectory"
        THEN Raised("NotADirectory", ErrorMessage(ENOTDIR, ReadCall, path))
        ELSE IF f[comps] = "none"
        THEN Raised("NotFound", ErrorMessage(ENOENT, ReadCall, path))
        ELSE IF f[comps] = "dir"
        THEN Raised("IsADirectory", ErrorMessage(EISDIR, ReadCall, path))
        ELSE Delivered(content)

\* Deno.writeTextFile(path, text) in the filesystem f: the outcome and the
\* filesystem after it; the file is created when it is missing
OsWriteTextFile(f, path) ==
    LET comps == Components(path)
    IN  IF WalkError(f, comps) = "NotFound"
        THEN [outcome |-> Raised("NotFound", ErrorMessage(ENOENT, WriteCall, path)),
              fs |-> f]
        ELSE IF WalkError(f, comps) = "NotADirectory"
        THEN [outcome |-> Raised("NotADirectory", ErrorMessage(ENOTDIR, WriteCall, path)),
              fs |-> f]
        ELSE IF f[comps] = "dir"
        THEN [outcome |-> Raised("IsADirectory", ErrorMessage(EISDIR, WriteCall, path)),
              fs |-> f]
        ELSE [outcome |-> Returned(FALSE), fs |-> [f EXCEPT ![comps] = "file"]]

\* the failures a call on path may meet whatever the tree holds
Faults(call, path) ==
    {Raised("PermissionDenied", ErrorMessage(EACCES, call, path)),
     Raised("Other", ErrorMessage(EIO, call, path))}

\* ------------------------------------------------------------------ exists, mkdir, mkdirp

\* Directory.exists(), given the outcome of its Deno.stat call
exists_notDirectoryIsIoError(stat) ==
    IF stat.class = "Ok"
    THEN IF stat.isDirectory THEN Ok(TRUE) ELSE Err([kind |-> "FILE_EXISTS"])
    ELSE IF stat.class = "NotFound" THEN Ok(FALSE)
    ELSE Err([kind |-> "IO_ERROR", message |-> stat.message])

exists_anyEntryIsDirectory(stat) ==
    IF stat.class = "Ok" THEN Ok(TRUE)
    ELSE IF stat.class = "NotFound" THEN Ok(FALSE)
    ELSE IF MessageIncludes(stat.message, NotADirectoryText)
    THEN Err([kind |-> "FILE_EXISTS"])
    ELSE Err([kind |-> "IO_ERROR", message |-> stat.message])

exists_reportsPermissionDenied(stat) ==
    IF stat.class = "Ok"
    THEN IF stat.isDirectory THEN Ok(TRUE) ELSE Err([kind |-> "FILE_EXISTS"])
    ELSE IF stat.class = "NotFound" THEN Ok(FALSE)
    ELSE IF stat.class = "PermissionDenied" THEN Err([kind |-> "PERMISSION_DENIED"])
    ELSE IF MessageIncludes(stat.message, NotADirectoryText)
    THEN Err([kind |-> "FILE_EXISTS"])
    ELSE Err([kind |-> "IO_ERROR", message |-> stat.message])

exists(stat) ==
    IF stat.class = "Ok"
    THEN IF stat.isDirectory THEN Ok(TRUE) ELSE Err([kind |-> "FILE_EXISTS"])
    ELSE IF stat.class = "NotFound" THEN Ok(FALSE)
    ELSE IF MessageIncludes(stat.message, NotADirectoryText)
    THEN Err([kind |-> "FILE_EXISTS"])
    ELSE Err([kind |-> "IO_ERROR", message |-> stat.message])

\* "Filesystem reported AlreadyExists, but directory not found. Original error: "
InconsistencyText ==
    <<70, 105, 108, 101, 115, 121, 115, 116, 101, 109, 32, 114, 101, 112, 111, 114, 116,
      101, 100, 32, 65, 108, 114, 101, 97, 100, 121, 69, 120, 105, 115, 116, 115, 44, 32,
      98, 117, 116, 32, 100, 105, 114, 101, 99, 116, 111, 114, 121, 32, 110, 111, 116, 32,
      102, 111, 117, 110, 100, 46, 32, 79, 114, 105, 103, 105, 110, 97, 108, 32, 101, 114,
      114, 111, 114, 58, 32>>

\* Directory.mkdir(), the AlreadyExists branch: error is what Deno.mkdir raised,
\* existsResult what the follow-up this.exists() returned
mkdirOnAlreadyExists_noRecheck(error, existsResult) == Err([kind |-> "FILE_EXISTS"])

mkdirOnAlreadyExists_swallowsRace(error, existsResult) ==
    IF existsResult.success THEN Ok(FALSE)
    ELSE IF existsResult.error.kind = "FILE_EXISTS" THEN Err([kind |-> "FILE_EXISTS"])
    ELSE Err(existsResult.error)

mkdirOnAlreadyExists(error, existsResult) ==
    IF existsResult.success
    THEN IF existsResult.value THEN Ok(FALSE)
         ELSE Err([kind |-> "IO_ERROR",
                   message |-> InconsistencyText \o error.message])
    ELSE IF existsResult.error.kind = "FILE_EXISTS" THEN Err([kind |-> "FILE_EXISTS"])
    ELSE IF existsResult.error.kind = "IO_ERROR" THEN Err(existsResult.error)
    ELSE Thrown(existsResult.error)

\* Directory.mkdir(), every other outcome of Deno.mkdir
mkdirOnCreate_notFoundFallsThrough(outcome) ==
    IF outcome.class = "Ok" THEN Ok(TRUE)
    ELSE IF outcome.class = "PermissionDenied" THEN Err([kind |-> "PERMISSION_DENIED"])
    ELSE Err([kind |-> "IO_ERROR", message |-> outcome.message])

mkdirOnCreate(outcome) ==
    IF outcome.class = "Ok" THEN Ok(TRUE)
    ELSE IF outcome.class = "PermissionDenied" THEN Err([kind |-> "PERMISSION_DENIED"])
    ELSE IF outcome.class = "NotFound" THEN Err([kind |-> "PARENT_NOT_FOUND"])
    ELSE Err([kind |-> "IO_ERROR", message |-> outcome.message])

\* "Unexpected PARENT_NOT_FOUND after creating parents"
UnexpectedText ==
    <<85, 110, 101, 120, 112, 101, 99, 116, 101, 100, 32, 80, 65, 82, 69, 78, 84, 95, 78,
      79, 84, 95, 70, 79, 85, 78, 68, 32, 97, 102, 116, 101, 114, 32, 99, 114, 101, 97,
      116, 105, 110, 103, 32, 112, 97, 114, 101, 110, 116, 115>>

\* Directory.mkdirp(), after this.mkdir() returned mkdirResult
mkdirp_reportsCreated(mkdirResult) ==
    IF ~mkdirResult.success
    THEN IF mkdirResult.error.kind = "PARENT_NOT_FOUND"
         THEN Err([kind |-> "IO_ERROR", message |-> UnexpectedText])
         ELSE mkdirResult
    ELSE Ok(TRUE)

mkdirp_forwardsAll(mkdirResult) == mkdirResult

\* an exception that left this.mkdir() passes through the frame, which has no try
mkdirp(mkdirResult) ==
    IF IsThrown(mkdirResult) THEN mkdirResult
    ELSE IF ~mkdirResult.success
    THEN IF mkdirResult.error.kind = "FILE_EXISTS" THEN Err([kind |-> "FILE_EXISTS"])
         ELSE IF mkdirResult.error.kind = "PERMISSION_DENIED"
         THEN Err([kind |-> "PERMISSION_DENIED"])
         ELSE IF mkdirResult.error.kind = "PARENT_NOT_FOUND"
         THEN Err([kind |-> "IO_ERROR", message |-> UnexpectedText])
         ELSE IF mkdirResult.error.kind = "IO_ERROR" THEN Err(mkdirResult.error)
         ELSE Thrown(mkdirResult.error)
    ELSE Ok(mkdirResult.value)

\* File.read(), given the outcome of its Deno.readTextFile call
read_notFoundIsIoError(outcome) ==
    IF outcome.class = "Ok" THEN Ok(outcome.content)
    ELSE IF outcome.class = "PermissionDenied" THEN Err([kind |-> "PERMISSION_DENIED"])
    ELSE IF outcome.class = "IsADirectory" THEN Err([kind |-> "IS_DIRECTORY"])
    ELSE Err([kind |-> "IO_ERROR", message |-> outcome.message])

read(outcome) ==
    IF outcome.class = "Ok" THEN Ok(outcome.content)
    ELSE IF outcome.class = "NotFound" THEN Err([kind |-> "FILE_NOT_FOUND"])
    ELSE IF outcome.class = "PermissionDenied" THEN Err([kind |-> "PERMISSION_DENIED"])
    ELSE IF outcome.class = "IsADirectory" THEN Err([kind |-> "IS_DIRECTORY"])
    ELSE Err([kind |-> "IO_ERROR", message |-> outcome.message])

\* File.write(text), given the outcome of its Deno.writeTextFile call; ok(undefined)
\* is Ok(Undefined)
write(outcome) ==
    IF outcome.class = "Ok" THEN Ok(Undefined)
    ELSE IF outcome.class = "PermissionDenied" THEN Err([kind |-> "PERMISSION_DENIED"])
    ELSE IF outcome.class = "IsADirectory" THEN Err([kind |-> "IS_DIRECTORY"])
    ELSE IF outcome.class = "NotFound" THEN Err([kind |-> "PARENT_NOT_FOUND"])
    ELSE Err([kind |-> "IO_ERROR", message |-> outcome.message])

\* the nodes mkdirp() recurses through, the root first
RECURSIVE chainFromRoot(_, _)
chainFromRoot(heap, d) ==
    IF heap[d].parent = Undefined THEN <<d>>
    ELSE Append(chainFromRoot(heap, heap[d].parent), d)

\* ------------------------------------------------------------------ the calls in flight

Callers == {1, 2}

MaxCalls == 2

MaxEnvSteps == 2

MaxFaults == 1

IdleCaller ==
    [op |-> "none", target |-> Undefined, node |-> Undefined, pc |-> "idle",
     pending |-> Returned(TRUE), result |-> NotCalled,
     log |-> <<>>, mkdirs |-> <<>>, mkdirps |-> <<>>,
     calls |-> 0, prev |-> <<>>, fsAtStart |-> <<>>, text |-> <<>>]

\* mkdirp(): "return err(parentResult.error)" in the frame of every descendant
propagate(parentResult) ==
    IF IsThrown(parentResult) THEN parentResult ELSE Err(parentResult.error)

IndexIn(chain, d) == CHOOSE i \in 1..Len(chain) : chain[i] = d

\* what follows the return of this.mkdir() on rec.node with result r: the end of a
\* mkdir() call, or the rest of the mkdirp() frames up to the next OS call
afterMkdir_ignoresParentFailure(heap, rec, create, stat, r) ==
    LET done == [rec EXCEPT !.mkdirs = Append(@, [node |-> rec.node, create |-> create,
                                                   stat |-> stat, result |-> r])]
        chain == chainFromRoot(heap, rec.target)
        i == IndexIn(chain, rec.node)
        own == mkdirp(r)
    IN  IF rec.op = "mkdir"
        THEN [done EXCEPT !.pc = "done", !.result = r]
        ELSE IF rec.node # rec.target
        THEN [done EXCEPT !.mkdirps = Append(@, [node |-> rec.node, result |-> own]),
                          !.node = chain[i + 1],
                          !.pc = "create"]
        ELSE [done EXCEPT !.mkdirps = Append(@, [node |-> rec.node, result |-> own]),
                          !.pc = "done",
                          !.result = own]

afterMkdir_mergesAncestors(heap, rec, create, stat, r) ==
    LET done == [rec EXCEPT !.mkdirs = Append(@, [node |-> rec.node, create |-> create,
                                                   stat |-> stat, result |-> r])]
        chain == chainFromRoot(heap, rec.target)
        i == IndexIn(chain, rec.node)
        own == mkdirp(r)
        merged == IF own.success
                  THEN Ok(own.value \/ \E k \in 1..Len(rec.mkdirps) :
                                          rec.mkdirps[k].result = Ok(TRUE))
                  ELSE own
    IN  IF rec.op = "mkdir"
        THEN [done EXCEPT !.pc = "done", !.result = r]
        ELSE IF own.success /\ rec.node # rec.target
        THEN [done EXCEPT !.mkdirps = Append(@, [node |-> rec.node, result |-> own]),
                          !.node = chain[i + 1],
                          !.pc = "create"]
        ELSE IF own.success
        THEN [done EXCEPT !.mkdirps = Append(@, [node |-> rec.node, result |-> merged]),
                          !.pc = "done",
                          !.result = merged]
        ELSE [done EXCEPT !.mkdirps = @ \o <<[node |-> rec.node, result |-> own]>>
                                        \o [k \in 1..(Len(chain) - i) |->
                                               [node |-> chain[i + k],
                                                result |-> propagate(own)]],
                          !.pc = "done",
                          !.result = IF rec.node = rec.target THEN own
                                     ELSE propagate(own)]

afterMkdir(heap, rec, create, stat, r) ==
    LET done == [rec EXCEPT !.mkdirs = Append(@, [node |-> rec.node, create |-> create,
                                                   stat |-> stat, result |-> r])]
        chain == chainFromRoot(heap, rec.target)
        i == IndexIn(chain, rec.node)
        own == mkdirp(r)
    IN  IF rec.op = "mkdir"
        THEN [done EXCEPT !.pc = "done", !.result = r]
        ELSE IF own.success /\ rec.node # rec.target
        THEN [done EXCEPT !.mkdirps = Append(@, [node |-> rec.node, result |-> own]),
                          !.node = chain[i + 1],
                          !.pc = "create"]
        ELSE IF own.success
        THEN [done EXCEPT !.mkdirps = Append(@, [node |-> rec.node, result |-> own]),
                          !.pc = "done",
                          !.result = own]
        ELSE [done EXCEPT !.mkdirps = @ \o <<[node |-> rec.node, result |-> own]>>
                                        \o [k \in 1..(Len(chain) - i) |->
                                               [node |-> chain[i + k],
                                                result |-> propagate(own)]],
                          !.pc = "done",
                          !.result = IF rec.node = rec.target THEN own
                                     ELSE propagate(own)]

Logged(rec, call, outcome) ==
    [rec EXCEPT !.log = Append(@, [call |-> call, node |-> rec.node, outcome |-> outcome])]

\* a caller invokes exists(), mkdir() or mkdirp() on the Directory d, or read() or
\* write(text) on the File d, for the first time (Start, StartWrite) or after its
\* previous call returned (Again)
InvokeWith(c, op, d, text) ==
    /\ nodes[d].kind = (IF op \in {"read", "write"} THEN "File" ELSE "Directory")
    /\ callers' = [callers EXCEPT ![c] =
           [op |-> op, target |-> d,
            node |-> IF op = "mkdirp" THEN chainFromRoot(nodes, d)[1] ELSE d,
            pc |-> IF op = "exists" THEN "stat"
                   ELSE IF op \in {"read", "write"} THEN op
                   ELSE "create",
            pending |-> Returned(TRUE), result |-> NotCalled,
            log |-> <<>>, mkdirs |-> <<>>, mkdirps |-> <<>>,
            calls |-> callers[c].calls + 1,
            prev |-> IF callers[c].pc = "done"
                     THEN <<[op |-> callers[c].op, target |-> callers[c].target,
                             result |-> callers[c].result]>>
                     ELSE <<>>,
            fsAtStart |-> fs,
            text |-> text]]
    /\ UNCHANGED <<input, output, nodes, fs, env>>

Invoke(c, op, d) == InvokeWith(c, op, d, <<>>)

\* a caller invokes write(text) on the File d
StartWrite(c, d, text) ==
    /\ callers[c].pc = "idle"
    /\ InvokeWith(c, "write", d, text)

Start(c, op, d) ==
    /\ callers[c].pc = "idle"
    /\ Invoke(c, op, d)

Again(c, op, d) ==
    /\ callers[c].pc = "done"
    /\ callers[c].calls < MaxCalls
    /\ Invoke(c, op, d)

\* the continuation of a caller after Deno.mkdir completed with outcome
onCreate(heap, rec, outcome) ==
    IF outcome.class = "AlreadyExists"
    THEN [Logged(rec, "mkdir", outcome) EXCEPT !.pc = "stat", !.pending = outcome]
    ELSE afterMkdir(heap, Logged(rec, "mkdir", outcome), outcome, <<>>,
                    mkdirOnCreate(outcome))

\* the continuation of a caller after Deno.stat completed with outcome
\* mkdir() calling Deno.mkdir again when the check finds the path empty
onStat_retriesCreate(heap, rec, outcome) ==
    IF rec.op = "exists"
    THEN [Logged(rec, "stat", outcome) EXCEPT !.pc = "done", !.result = exists(outcome)]
    ELSE IF exists(outcome) = Ok(FALSE)
    THEN [Logged(rec, "stat", outcome) EXCEPT !.pc = "create"]
    ELSE afterMkdir(heap, Logged(rec, "stat", outcome), rec.pending, <<outcome>>,
                    mkdirOnAlreadyExists(rec.pending, exists(outcome)))

onStat(heap, rec, outcome) ==
    IF rec.op = "exists"
    THEN [Logged(rec, "stat", outcome) EXCEPT !.pc = "done", !.result = exists(outcome)]
    ELSE afterMkdir(heap, Logged(rec, "stat", outcome), rec.pending, <<outcome>>,
                    mkdirOnAlreadyExists(rec.pending, exists(outcome)))

\* await Deno.mkdir(this.fullPath, { recursive: true }): the missing parents are
\* created with the directory, and a directory that is there is no failure
Create_recursive(c) ==
    /\ callers[c].pc = "create"
    /\ \E path \in {fullPath(nodes, callers[c].node)} :
       \E comps \in {Components(path)} :
           IF WalkError(fs, comps) # "NotADirectory" /\ fs[comps] # "file"
           THEN /\ fs' = [q \in FsPaths |-> IF IsBelow(comps, q) THEN "dir" ELSE fs[q]]
                /\ callers' = [callers EXCEPT ![c] = onCreate(nodes, @, Returned(TRUE))]
           ELSE /\ fs' = fs
                /\ callers' = [callers EXCEPT ![c] =
                       onCreate(nodes, @, OsMkdir(fs, path).outcome)]
    /\ UNCHANGED <<input, output, nodes, env>>

\* await Deno.mkdir(this.fullPath)
Create(c) ==
    /\ callers[c].pc = "create"
    /\ \E path \in {fullPath(nodes, callers[c].node)} :
       \E os \in {OsMkdir(fs, path)} :
           /\ fs' = os.fs
           /\ callers' = [callers EXCEPT ![c] = onCreate(nodes, @, os.outcome)]
    /\ UNCHANGED <<input, output, nodes, env>>

\* await Deno.mkdir(this.fullPath), failing for a reason outside the tree
CreateFault(c) ==
    /\ callers[c].pc = "create"
    /\ env.faults < MaxFaults
    /\ \E outcome \in Faults(MkdirCall, fullPath(nodes, callers[c].node)) :
           callers' = [callers EXCEPT ![c] = onCreate(nodes, @, outcome)]
    /\ env' = [env EXCEPT !.faults = @ + 1]
    /\ UNCHANGED <<input, output, nodes, fs>>

\* await Deno.stat(this.fullPath)
Stat(c) ==
    /\ callers[c].pc = "stat"
    /\ \E path \in {fullPath(nodes, callers[c].node)} :
       \E outcome \in {OsStat(fs, path)} :
           callers' = [callers EXCEPT ![c] = onStat(nodes, @, outcome)]
    /\ UNCHANGED <<input, output, nodes, fs, env>>

\* await Deno.stat(this.fullPath), failing for a reason outside the tree
StatFault(c) ==
    /\ callers[c].pc = "stat"
    /\ env.faults < MaxFaults
    /\ \E outcome \in Faults(StatCall, fullPath(nodes, callers[c].node)) :
           callers' = [callers EXCEPT ![c] = onStat(nodes, @, outcome)]
    /\ env' = [env EXCEPT !.faults = @ + 1]
    /\ UNCHANGED <<input, output, nodes, fs>>

\* the continuation of a caller after Deno.readTextFile completed with outcome
onRead(rec, outcome) ==
    [Logged(rec, "readTextFile", outcome) EXCEPT !.pc = "done", !.result = read(outcome)]

\* the continuation of a caller after Deno.writeTextFile completed with outcome
onWrite(rec, outcome) ==
    [Logged(rec, "writeTextFile", outcome) EXCEPT !.pc = "done",
                                                   !.result = write(outcome)]

\* await Deno.readTextFile(this.fullPath)
Read(c) ==
    /\ callers[c].pc = "read"
    /\ \E content \in Texts, path \in {fileFullPath(nodes, callers[c].node)} :
       \E outcome \in {OsReadTextFile(fs, path, content)} :
           callers' = [callers EXCEPT ![c] = onRead(@, outcome)]
    /\ UNCHANGED <<input, output, nodes, fs, env>>

\* await Deno.readTextFile(this.fullPath), failing for a reason outside the tree
ReadFault(c) ==
    /\ callers[c].pc = "read"
    /\ env.faults < MaxFaults
    /\ \E outcome \in Faults(ReadCall, fileFullPath(nodes, callers[c].node)) :
           callers' = [callers EXCEPT ![c] = onRead(@, outcome)]
    /\ env' = [env EXCEPT !.faults = @ + 1]
    /\ UNCHANGED <<input, output, nodes, fs>>

\* await Deno.writeTextFile(this.fullPath, text)
Write(c) ==
    /\ callers[c].pc = "write"
    /\ \E path \in {fileFullPath(nodes, callers[c].node)} :
       \E os \in {OsWriteTextFile(fs, path)} :
           /\ fs' = os.fs
           /\ callers' = [callers EXCEPT ![c] = onWrite(@, os.outcome)]
    /\ UNCHANGED <<input, output, nodes, env>>

\* await Deno.writeTextFile(this.fullPath, text), failing for a reason outside the tree
WriteFault(c) ==
    /\ callers[c].pc = "write"
    /\ env.faults < MaxFaults
    /\ \E outcome \in Faults(WriteCall, fileFullPath(nodes, callers[c].node)) :
           callers' = [callers EXCEPT ![c] = onWrite(@, outcome)]
    /\ env' = [env EXCEPT !.faults = @ + 1]
    /\ UNCHANGED <<input, output, nodes, fs>>

\* ------------------------------------------------------------------ other processes

\* another process creates the directory q
EnvMkdir(q) ==
    /\ env.steps < MaxEnvSteps
    /\ q # <<>>
    /\ fs[q] = "none"
    /\ fs[ParentOf(q)] = "dir"
    /\ fs' = [fs EXCEPT ![q] = "dir"]
    /\ env' = [env EXCEPT !.steps = @ + 1, !.made = @ \cup {q}]
    /\ UNCHANGED <<input, output, nodes, callers>>

\* another process creates the file q
EnvWriteFile(q) ==
    /\ env.steps < MaxEnvSteps
    /\ q # <<>>
    /\ fs[q] = "none"
    /\ fs[ParentOf(q)] = "dir"
    /\ fs' = [fs EXCEPT ![q] = "file"]
    /\ env' = [env EXCEPT !.steps = @ + 1]
    /\ UNCHANGED <<input, output, nodes, callers>>

\* another process removes q, or moves it away, with everything below it
EnvRemove(q) ==
    /\ env.steps < MaxEnvSteps
    /\ q # <<>>
    /\ fs[q] # "none"
    /\ fs' = [r \in FsPaths |-> IF IsBelow(r, q) THEN "none" ELSE fs[r]]
    /\ env' = [env EXCEPT !.steps = @ + 1]
    /\ UNCHANGED <<input, output, nodes, callers>>

\* ------------------------------------------------------------------ the specifications of the filesystem calls

InitCalls ==
    /\ input = <<>>
    /\ output = NotCalled
    /\ nodes = FsHeap
    /\ callers = [c \in Callers |-> IdleCaller]
    /\ env = [steps |-> 0, faults |-> 0, made |-> {}, fs0 |-> fs]

\* one caller, other processes changing the tree, OS faults
InitFs ==
    /\ fs \in FsStates
    /\ InitCalls

NextFs ==
    \/ \E op \in {"exists", "mkdir", "mkdirp", "read"}, d \in 1..Len(nodes) :
           Start(1, op, d)
    \/ \E d \in 1..Len(nodes), text \in Texts : StartWrite(1, d, text)
    \/ Create(1)
    \/ CreateFault(1)
    \/ Stat(1)
    \/ StatFault(1)
    \/ Read(1)
    \/ ReadFault(1)
    \/ Write(1)
    \/ WriteFault(1)
    \/ \E q \in FsPaths : EnvMkdir(q)
    \/ \E q \in FsPaths : EnvWriteFile(q)
    \/ \E q \in FsPaths : EnvRemove(q)

SpecFs == InitFs /\ [][NextFs]_vars

\* a mkdirp() call whose awaited OS calls are answered, with OS faults and one
\* change of the tree by another process
MaxInterference == 1

\* the OS answers the call that is awaited, with an outcome or a failure
OsAnswers ==
    \/ Create(1)
    \/ CreateFault(1)
    \/ Stat(1)
    \/ StatFault(1)

NextMkdirp ==
    \/ \E d \in 1..Len(nodes) : Start(1, "mkdirp", d)
    \/ Create(1)
    \/ CreateFault(1)
    \/ Stat(1)
    \/ StatFault(1)
    \/ \E q \in FsPaths : env.steps < MaxInterference /\ EnvMkdir(q)
    \/ \E q \in FsPaths : env.steps < MaxInterference /\ EnvWriteFile(q)
    \/ \E q \in FsPaths : env.steps < MaxInterference /\ EnvRemove(q)

SpecMkdirp == InitFs /\ [][NextMkdirp]_vars /\ WF_vars(OsAnswers)

\* one caller alone: no other process, no OS fault; a call may be repeated
NextQuiet ==
    \/ \E op \in {"exists", "mkdir", "mkdirp"}, d \in 1..Len(nodes) : Start(1, op, d)
    \/ \E op \in {"exists", "mkdir", "mkdirp"}, d \in 1..Len(nodes) : Again(1, op, d)
    \/ Create(1)
    \/ Stat(1)

SpecQuiet == InitFs /\ [][NextQuiet]_vars

\* concurrent mkdirp() calls in a tree without files, where nothing is deleted and
\* other processes create directories only
InitRace ==
    /\ fs \in {f \in FsStates : \A q \in FsPaths : f[q] # "file"}
    /\ InitCalls

NextRace ==
    \/ \E c \in Callers, d \in 1..Len(nodes) : Start(c, "mkdirp", d)
    \/ \E c \in Callers : Create(c)
    \/ \E c \in Callers : Stat(c)
    \/ \E q \in FsPaths : EnvMkdir(q)

SpecRace == InitRace /\ [][NextRace]_vars

\* ================================================================== claims

\* ------------------------------------------------------------------ the rules, as the claims state them

RuleOrder ==
    <<"EMPTY", "TOO_LONG", "RESERVED", "CONTAINS_PATH_SEPARATOR", "CONTAINS_NULL",
      "INVALID_CHAR", "CONTROL_CHAR", "UTF8_TOO_LONG">>

Rank(kind) == CHOOSE i \in 1..Len(RuleOrder) : RuleOrder[i] = kind

Kinds(findings) == [i \in 1..Len(findings) |-> findings[i].kind]

\* the length counted in Unicode scalar values: a surrogate pair is one scalar value
ScalarCount(s) == Len(s) - Cardinality({i \in 1..Len(s) : PairStart(s, i)})

\* the UTF-8 length by classes of units
Utf8Length(s) ==
    LET idx == 1..Len(s)
        pairs == {i \in idx : PairStart(s, i)}
        ends == {i \in idx : PairEnd(s, i)}
    IN  Cardinality({i \in idx : s[i] < 128})
          + 2 * Cardinality({i \in idx : s[i] >= 128 /\ s[i] < 2048})
          + 3 * Cardinality({i \in idx : s[i] >= 2048} \ (pairs \cup ends))
          + 4 * Cardinality(pairs)

ForbiddenChars == {34, 42, 58, 60, 62, 63, 92, 124}

RuleHolds(kind, s) ==
    CASE kind = "EMPTY" -> s = <<>>
      [] kind = "TOO_LONG" -> ScalarCount(s) > 255
      [] kind = "RESERVED" -> s \in {<<DOT>>, <<DOT, DOT>>}
      [] kind = "CONTAINS_PATH_SEPARATOR" -> \E i \in DOMAIN s : s[i] = SLASH
      [] kind = "CONTAINS_NULL" -> \E i \in DOMAIN s : s[i] = NUL
      [] kind = "INVALID_CHAR" -> \E i \in DOMAIN s : s[i] \in ForbiddenChars
      [] kind = "CONTROL_CHAR" -> \E i \in DOMAIN s : s[i] \in 0..31
      [] kind = "UTF8_TOO_LONG" -> Utf8Length(s) > 255

NoRuleFires(s) == \A k \in 1..Len(RuleOrder) : ~RuleHolds(RuleOrder[k], s)

\* C1: for every name, validate succeeds exactly when none of the eight rules
\* fires; on success the value is the input name unchanged, on failure the
\* finding list is not empty.
C1_SuccessIffNoRuleFires ==
    output.called =>
        /\ output.result.success <=> NoRuleFires(input)
        /\ output.result.success => output.result.value = input
        /\ ~output.result.success => Len(output.result.error) > 0

\* a name of exactly 255 units was validated and accepted
C1_Witness ==
    /\ output.called
    /\ output.result.success
    /\ Len(input) = 255

\* C2: the findings appear in the fixed rule order whatever the positions of the
\* offending characters, each kind at most once, and every rule whose condition
\* holds contributes its finding.
C2_FindingsInRuleOrder ==
    (output.called /\ ~output.result.success) =>
        LET e == output.result.error
        IN  /\ \A i \in 1..Len(e) : e[i].kind \in {RuleOrder[k] : k \in 1..Len(RuleOrder)}
            /\ \A i, j \in 1..Len(e) : i < j => Rank(e[i].kind) < Rank(e[j].kind)
            /\ \A k \in 1..Len(RuleOrder) :
                  RuleHolds(RuleOrder[k], input) =>
                      \E i \in 1..Len(e) : e[i].kind = RuleOrder[k]

\* a NUL before a '/' in the name: the separator finding still comes first
C2_Witness ==
    /\ output.called
    /\ Len(input) = 2
    /\ input[1] = NUL
    /\ input[2] = SLASH
    /\ ~output.result.success
    /\ Kinds(output.result.error)
         = <<"CONTAINS_PATH_SEPARATOR", "CONTAINS_NULL", "CONTROL_CHAR">>

\* ------------------------------------------------------------------ paths, as the claims state them

SlashesOf(p) == {i \in 1..Len(p) : p[i] = SLASH}

\* the text after the k-th slash of p, up to the next slash or the end of p
SegmentAfter(p, k) ==
    LET from == CHOOSE i \in SlashesOf(p) : Cardinality({j \in SlashesOf(p) : j < i}) = k - 1
        later == {j \in SlashesOf(p) : j > from}
        to == IF later = {} THEN Len(p) + 1
              ELSE CHOOSE j \in later : \A l \in later : j <= l
    IN  [i \in 1..(to - from - 1) |-> p[from + i]]

\* the '/'-separated segments of an absolute path
SegmentsOf(p) == [k \in 1..Cardinality(SlashesOf(p)) |-> SegmentAfter(p, k)]

\* absolute, not "/", no trailing slash
SegmentedPath(p) ==
    /\ Len(p) >= 2
    /\ p[1] = SLASH
    /\ p[Len(p)] # SLASH

Fails(seg) == ~fileNameValidate(seg).success

Reverse(q) == [i \in 1..Len(q) |-> q[Len(q) + 1 - i]]

\* the nodes from d up to the node without parent
RECURSIVE ChainOf(_, _)
ChainOf(heap, d) ==
    IF heap[d].parent = Undefined THEN <<d>>
    ELSE <<d>> \o ChainOf(heap, heap[d].parent)

\* C3: when at least one segment of an absolute path without trailing slash fails
\* validation, Directory.build returns one INVALID_PATH_SEGMENT error holding exactly
\* one entry (segment text, that segment's complete finding list) per failing
\* segment, in left-to-right order, none for a valid segment, and no Directory.
C3_AllFailingSegmentsCollected ==
    (/\ output.called
     /\ SegmentedPath(input)
     /\ \E k \in 1..Len(SegmentsOf(input)) : Fails(SegmentsOf(input)[k])) =>
        LET failing == SelectSeq(SegmentsOf(input), Fails)
        IN  /\ ~output.result.success
            /\ output.result.error.kind = "INVALID_PATH_SEGMENT"
            /\ output.result.error.pathSegmentErrors
                 = [k \in 1..Len(failing) |->
                        <<failing[k], fileNameValidate(failing[k]).error>>]

\* two failing segments with a valid one between them, and valid ones around
C3_Witness ==
    /\ output.called
    /\ SegmentedPath(input)
    /\ Len(SegmentsOf(input)) = 3
    /\ Fails(SegmentsOf(input)[1])
    /\ ~Fails(SegmentsOf(input)[2])
    /\ Fails(SegmentsOf(input)[3])
    /\ ~output.result.success
    /\ Len(output.result.error.pathSegmentErrors) = 2

\* C4: when every segment passes the validator, Directory.build returns a Directory
\* whose parent chain, from the returned node up, carries the segments in reverse
\* order and ends in a root with empty name and no parent, with exactly one node per
\* segment below the root; Directory.build("/") returns the root itself.
C4_ChainCarriesSegments ==
    /\ (/\ output.called
        /\ SegmentedPath(input)
        /\ \A k \in 1..Len(SegmentsOf(input)) : ~Fails(SegmentsOf(input)[k])) =>
           /\ output.result.success
           /\ LET chain == ChainOf(nodes, output.result.value)
                  root == chain[Len(chain)]
              IN  /\ Len(chain) = Len(SegmentsOf(input)) + 1
                  /\ [i \in 1..(Len(chain) - 1) |-> nodes[chain[i]].name]
                       = Reverse(SegmentsOf(input))
                  /\ nodes[root].name = <<>>
                  /\ nodes[root].parent = Undefined
    /\ (output.called /\ input = <<SLASH>>) =>
           /\ output.result.success
           /\ nodes[output.result.value].name = <<>>
           /\ nodes[output.result.value].parent = Undefined

\* a path of three different valid segments was built
C4_Witness ==
    /\ output.called
    /\ output.result.success
    /\ Len(ChainOf(nodes, output.result.value)) = 4
    /\ SegmentsOf(input)[1] # SegmentsOf(input)[3]

\* C5: round trip: for an absolute path p of validator-legal segments, without
\* doubled or trailing slash, and for "/", Directory.build(p) succeeds and the
\* fullPath of the result is p.
C5_RoundTrip ==
    /\ (/\ output.called
        /\ \/ input = <<SLASH>>
           \/ /\ SegmentedPath(input)
              /\ \A k \in 1..Len(SegmentsOf(input)) : ~Fails(SegmentsOf(input)[k])) =>
           output.result.success
    /\ (output.called /\ output.result.success /\ output.read) =>
           output.fullPath = input

\* the fullPath of a three-level Directory was read
C5_Witness ==
    /\ output.called
    /\ output.result.success
    /\ output.read
    /\ Len(SegmentsOf(input)) = 3
    /\ output.fullPath = input

\* ------------------------------------------------------------------ calls, as the claims state them

\* the Deno.mkdir calls of a caller, in the order they were issued
CreatesOf(rec) == SelectSeq(rec.log, LAMBDA e : e.call = "mkdir")

StatsOf(rec) == SelectSeq(rec.log, LAMBDA e : e.call = "stat")

HasEntry(entries, d) == \E i \in 1..Len(entries) : entries[i].node = d

EntryOf(entries, d) == entries[CHOOSE i \in 1..Len(entries) : entries[i].node = d]

\* C6: when the create call of mkdir() reports already-exists, mkdir() classifies
\* the outcome by the follow-up exists() check, whatever other processes did to the
\* path in between: ok(false) if the check observes a directory, err(FILE_EXISTS) if
\* it observes a file or a file blocking the path, err(IO_ERROR) describing the
\* inconsistency if nothing is there any more, the check's own IO_ERROR if it fails.
C6_AlreadyExistsClassifiedByCheck ==
    \A c \in Callers : \A i \in 1..Len(callers[c].mkdirs) :
        LET m == callers[c].mkdirs[i]
        IN  m.create.class = "AlreadyExists" =>
                /\ Len(m.stat) = 1
                /\ LET seen == m.stat[1]
                   IN  CASE seen.class = "Ok" /\ seen.isDirectory -> m.result = Ok(FALSE)
                         [] seen.class = "Ok" /\ ~seen.isDirectory ->
                                m.result = Err([kind |-> "FILE_EXISTS"])
                         [] seen.class = "NotADirectory" ->
                                m.result = Err([kind |-> "FILE_EXISTS"])
                         [] seen.class = "NotFound" ->
                                /\ ~m.result.success
                                /\ m.result.error.kind = "IO_ERROR"
                                /\ m.result.error.message
                                     = InconsistencyText \o m.create.message
                         [] OTHER ->
                                m.result = Err([kind |-> "IO_ERROR",
                                                message |-> seen.message])

\* the create reported already-exists and the check then found nothing: another
\* process removed the entry in between
C6_Witness ==
    \E c \in Callers : \E i \in 1..Len(callers[c].mkdirs) :
        /\ callers[c].mkdirs[i].create.class = "AlreadyExists"
        /\ callers[c].mkdirs[i].stat[1].class = "NotFound"
        /\ env.steps > 0

\* C7: mkdirp() processes the parent chain strictly from the root (included) down
\* to the target, one mkdir() per node; the mkdir() of a node is attempted only after
\* the mkdirp() of its parent returned success; if an ancestor fails, mkdirp()
\* returns that ancestor's error unchanged and issues no create call below it.
C7_RootDownAndStopAtFailure ==
    \A c \in Callers :
        callers[c].op = "mkdirp" =>
            LET rec == callers[c]
                chain == chainFromRoot(nodes, rec.target)
                creates == CreatesOf(rec)
            IN  /\ Len(creates) <= Len(chain)
                /\ \A k \in 1..Len(creates) : creates[k].node = chain[k]
                /\ Len(creates) >= 1 => fullPath(nodes, creates[1].node) = <<SLASH>>
                /\ \A k \in 1..Len(rec.mkdirs) : rec.mkdirs[k].node = chain[k]
                /\ \A k \in 2..Len(chain) :
                      (\/ k <= Len(creates)
                       \/ (rec.pc = "create" /\ rec.node = chain[k])) =>
                          /\ HasEntry(rec.mkdirps, chain[k - 1])
                          /\ EntryOf(rec.mkdirps, chain[k - 1]).result.success
                /\ \A k \in 1..(Len(chain) - 1) :
                      (/\ HasEntry(rec.mkdirps, chain[k])
                       /\ ~EntryOf(rec.mkdirps, chain[k]).result.success
                       /\ HasEntry(rec.mkdirs, chain[k])) =>
                          /\ rec.pc = "done"
                          /\ rec.result = EntryOf(rec.mkdirps, chain[k]).result
                          /\ Len(creates) = k

\* mkdirp() of "/a/b/c" ended with the failure of "/a" after the root succeeded
C7_Witness ==
    \E c \in Callers :
        /\ callers[c].op = "mkdirp"
        /\ callers[c].pc = "done"
        /\ Len(chainFromRoot(nodes, callers[c].target)) = 4
        /\ Len(CreatesOf(callers[c])) = 2
        /\ ~callers[c].result.success

\* C8: mkdirp() never returns PARENT_NOT_FOUND: when the mkdir() of a node of the
\* chain reports it, mkdirp() returns IO_ERROR with a descriptive message and does
\* not attempt the creation again; every other mkdir() outcome is forwarded with its
\* kind unchanged.
C8_ParentNotFoundBecomesIoError ==
    \A c \in Callers :
        callers[c].op = "mkdirp" =>
            LET rec == callers[c]
            IN  /\ (rec.pc = "done" /\ ~rec.result.success) =>
                       rec.result.error.kind \in {"FILE_EXISTS", "PERMISSION_DENIED", "IO_ERROR"}
                /\ \A i \in 1..Len(rec.mkdirs) :
                       LET m == rec.mkdirs[i]
                           own == EntryOf(rec.mkdirps, m.node).result
                       IN  /\ HasEntry(rec.mkdirps, m.node)
                           /\ IF ~m.result.success /\ m.result.error.kind = "PARENT_NOT_FOUND"
                              THEN /\ own = Err([kind |-> "IO_ERROR",
                                                 message |-> UnexpectedText])
                                   /\ rec.pc = "done"
                                   /\ rec.result = own
                                   /\ Cardinality({k \in 1..Len(rec.log) :
                                          rec.log[k].call = "mkdir"
                                            /\ rec.log[k].node = m.node}) = 1
                              ELSE IF m.result.success
                              THEN own = Ok(m.result.value)
                              ELSE /\ ~own.success
                                   /\ own.error.kind = m.result.error.kind

\* the mkdir() of a node found its parent missing: another process had removed the
\* ancestor that mkdirp() had just ensured
C8_Witness ==
    \E c \in Callers :
        /\ callers[c].op = "mkdirp"
        /\ callers[c].pc = "done"
        /\ \E i \in 1..Len(callers[c].mkdirs) :
               /\ ~callers[c].mkdirs[i].result.success
               /\ callers[c].mkdirs[i].result.error.kind = "PARENT_NOT_FOUND"

\* the filesystem path of a Directory, and the paths of the chain of a call
PathOf(d) == Components(fullPath(nodes, d))

ChainPaths(rec) ==
    {PathOf(chainFromRoot(nodes, rec.target)[k]) :
        k \in 1..Len(chainFromRoot(nodes, rec.target))}

\* C9: alone in the filesystem, with no file on the path and no permission failure,
\* mkdirp() on a path with missing levels returns ok(true) and afterwards every node
\* of the chain is a directory (also when part of the path existed); repeated at
\* once it returns ok(false) and changes nothing; on an existing directory it
\* returns ok(false).
C9_MkdirpCreatesAllAndIsIdempotent ==
    LET rec == callers[1]
    IN  (rec.op = "mkdirp" /\ rec.pc = "done") =>
            /\ (/\ \A q \in ChainPaths(rec) : rec.fsAtStart[q] # "file"
                /\ rec.fsAtStart[PathOf(rec.target)] = "none") =>
                   /\ rec.result = Ok(TRUE)
                   /\ \A q \in ChainPaths(rec) : fs[q] = "dir"
            /\ (/\ rec.prev # <<>>
                /\ rec.prev[1].op = "mkdirp"
                /\ rec.prev[1].target = rec.target
                /\ rec.prev[1].result.success) =>
                   /\ rec.result = Ok(FALSE)
                   /\ fs = rec.fsAtStart
            /\ rec.fsAtStart[PathOf(rec.target)] = "dir" => rec.result = Ok(FALSE)

\* "/a/b/c" was created where only "/a" existed, and the mkdirp() was repeated
C9_Witness ==
    /\ callers[1].op = "mkdirp"
    /\ callers[1].pc = "done"
    /\ Len(chainFromRoot(nodes, callers[1].target)) = 4
    /\ env.fs0[PathOf(nodes[nodes[callers[1].target].parent].parent)] = "dir"
    /\ env.fs0[PathOf(nodes[callers[1].target].parent)] = "none"
    /\ callers[1].prev # <<>>
    /\ callers[1].prev[1].op = "mkdirp"
    /\ callers[1].prev[1].target = callers[1].target
    /\ callers[1].prev[1].result = Ok(TRUE)
    /\ callers[1].result = Ok(FALSE)

\* the number of successful create calls of the callers on the path q
CreatedBy(c, q) ==
    Cardinality({k \in 1..Len(callers[c].log) :
        /\ callers[c].log[k].call = "mkdir"
        /\ callers[c].log[k].outcome.class = "Ok"
        /\ PathOf(callers[c].log[k].node) = q})

RECURSIVE SumOver(_, _)
SumOver(S, q) ==
    IF S = {} THEN 0
    ELSE LET c == CHOOSE x \in S : TRUE
         IN  CreatedBy(c, q) + SumOver(S \ {c}, q)

AllReturned == \A c \in Callers : callers[c].op = "mkdirp" /\ callers[c].pc = "done"

AllPaths == UNION {ChainPaths(callers[c]) : c \in Callers}

CommonTarget == \A c, e \in Callers : callers[c].target = callers[e].target

\* C10, as stated: with concurrent mkdirp() callers, nothing deleted and no file
\* created, every caller returns success, every directory of the paths is created
\* by exactly one caller's create call, and for a common target that did not exist
\* before exactly one caller receives ok(true), the others ok(false).
C10_AsStated ==
    AllReturned =>
        /\ \A c \in Callers : callers[c].result.success
        /\ \A q \in AllPaths : SumOver(Callers, q) = 1
        /\ (CommonTarget /\ env.fs0[PathOf(callers[1].target)] = "none") =>
               /\ Cardinality({c \in Callers : callers[c].result = Ok(TRUE)}) = 1
               /\ \A c \in Callers : callers[c].result \in {Ok(TRUE), Ok(FALSE)}

\* C10, amended: every caller returns success and every directory of the paths
\* exists afterwards; a directory that existed before (the root always) or that
\* another process created is created by no caller, every other one by exactly one
\* caller's create call; for a common target that did not exist before and that no
\* other process created, exactly one caller receives ok(true), the others
\* ok(false); for any other common target all receive ok(false).
C10_EachMissingDirectoryCreatedOnce ==
    AllReturned =>
        /\ \A c \in Callers : callers[c].result.success
        /\ \A q \in AllPaths :
               /\ fs[q] = "dir"
               /\ SumOver(Callers, q)
                    = IF env.fs0[q] = "none" /\ q \notin env.made THEN 1 ELSE 0
        /\ CommonTarget =>
               LET t == PathOf(callers[1].target)
               IN  /\ \A c \in Callers : callers[c].result \in {Ok(TRUE), Ok(FALSE)}
                   /\ Cardinality({c \in Callers : callers[c].result = Ok(TRUE)})
                        = IF env.fs0[t] = "none" /\ t \notin env.made THEN 1 ELSE 0

\* both callers ran mkdirp() on the missing "/a/b/c", their create calls
\* interleaved: each of them created some directory of the path
C10_Witness ==
    /\ AllReturned
    /\ CommonTarget
    /\ Len(chainFromRoot(nodes, callers[1].target)) = 4
    /\ env.fs0[PathOf(nodes[nodes[callers[1].target].parent].parent)] = "none"
    /\ \A c \in Callers : \E q \in AllPaths : CreatedBy(c, q) = 1
    /\ callers[2].result = Ok(TRUE)
    /\ callers[1].result = Ok(FALSE)

\* the create calls of a caller on its target that the OS completed
TargetCreated(rec) ==
    \E k \in 1..Len(rec.log) :
        /\ rec.log[k].call = "mkdir"
        /\ rec.log[k].node = rec.target
        /\ rec.log[k].outcome.class = "Ok"

\* the target was found to be an existing directory: its create call reported
\* already-exists and the check that followed saw a directory
TargetFound(rec) ==
    \E k \in 1..Len(rec.mkdirs) :
        /\ rec.mkdirs[k].node = rec.target
        /\ rec.mkdirs[k].create.class = "AlreadyExists"
        /\ Len(rec.mkdirs[k].stat) = 1
        /\ rec.mkdirs[k].stat[1].class = "Ok"
        /\ rec.mkdirs[k].stat[1].isDirectory

\* the nodes of the chain above the target
AncestorEntries(rec) == SelectSeq(rec.mkdirps, LAMBDA e : e.node # rec.target)

\* C11: mkdirp() returns ok(true) exactly when the OS create call for the target
\* itself succeeded during this call, and ok(false) exactly when the target was
\* found to be an existing directory; the true/false results of the ancestors do
\* not enter the returned value.
C11_ResultIsTargetsOwn ==
    \A c \in Callers :
        (callers[c].op = "mkdirp" /\ callers[c].pc = "done") =>
            /\ callers[c].result = Ok(TRUE) <=> TargetCreated(callers[c])
            /\ callers[c].result = Ok(FALSE) <=> TargetFound(callers[c])

\* mkdirp() of "/a/b/c" created "/a" and "/a/b" itself and then found "/a/b/c"
\* existing (another process made it): ok(false) with newly created ancestors
C11_Witness ==
    \E c \in Callers :
        /\ callers[c].op = "mkdirp"
        /\ callers[c].pc = "done"
        /\ Len(chainFromRoot(nodes, callers[c].target)) = 4
        /\ callers[c].result = Ok(FALSE)
        /\ \E k \in 1..Len(AncestorEntries(callers[c])) :
               AncestorEntries(callers[c])[k].result = Ok(TRUE)

\* no other process and no OS fault has acted since the initial filesystem
Quiescent == env.steps = 0 /\ env.faults = 0

\* the proper ancestors of the path q, the root included
AncestorsOf(q) == {SubSeq(q, 1, k) : k \in 0..(Len(q) - 1)}

C13_ExistsClassifiesStat ==
    \A c \in Callers :
        (callers[c].op = "exists" /\ callers[c].pc = "done") =>
            LET rec == callers[c]
                seen == rec.log[Len(rec.log)].outcome
            IN  CASE seen.class = "Ok" /\ seen.isDirectory -> rec.result = Ok(TRUE)
                  [] seen.class = "Ok" /\ ~seen.isDirectory ->
                         rec.result = Err([kind |-> "FILE_EXISTS"])
                  [] seen.class = "NotADirectory" ->
                         rec.result = Err([kind |-> "FILE_EXISTS"])
                  [] seen.class = "NotFound" -> rec.result = Ok(FALSE)
                  [] OTHER -> rec.result = Err([kind |-> "IO_ERROR",
                                                message |-> seen.message])

\* the files on the chain of a call when it started
FilesOnChain(rec) == {q \in ChainPaths(rec) : rec.fsAtStart[q] = "file"}

\* C14: in a quiescent filesystem, mkdirp() on a path where a regular file occupies
\* the target or an ancestor of the target returns err(FILE_EXISTS), not IO_ERROR or
\* PARENT_NOT_FOUND, and creates no directory at or below that file: no create call
\* is made below it and the entries there are as before.
C14_FileOnPathIsFileExists ==
    \A c \in Callers :
        LET rec == callers[c]
        IN  (rec.op = "mkdirp" /\ rec.pc = "done" /\ Quiescent
               /\ FilesOnChain(rec) # {}) =>
                /\ rec.result = Err([kind |-> "FILE_EXISTS"])
                /\ \A q \in FilesOnChain(rec) :
                       /\ \A r \in FsPaths : IsBelow(r, q) => fs[r] = rec.fsAtStart[r]
                       /\ \A k \in 1..Len(rec.log) :
                              (rec.log[k].call = "mkdir"
                                 /\ IsBelow(PathOf(rec.log[k].node), q)) =>
                                  /\ PathOf(rec.log[k].node) = q
                                  /\ rec.log[k].outcome.class = "AlreadyExists"

\* mkdirp() of "/a/b/c" returned where "/a" is a file
C14_Witness ==
    \E c \in Callers :
        /\ callers[c].op = "mkdirp"
        /\ callers[c].pc = "done"
        /\ Quiescent
        /\ Len(PathOf(callers[c].target)) = 3
        /\ callers[c].fsAtStart[SubSeq(PathOf(callers[c].target), 1, 1)] = "file"
        /\ callers[c].result = Err([kind |-> "FILE_EXISTS"])
        /\ fs[PathOf(callers[c].target)] = "none"

\* the findings of one kind in the result of the validated name
FindingsOf(kind) ==
    IF output.result.success THEN <<>>
    ELSE SelectSeq(output.result.error, LAMBDA e : e.kind = kind)

\* C15: validate reports TOO_LONG exactly when the length of the name counted in
\* Unicode scalar values exceeds 255, with max = 255 and actual = that count; a name
\* of at most 255 scalar values made of four-byte code points gets no TOO_LONG.
C15_TooLongCountsScalarValues ==
    output.called =>
        /\ Len(FindingsOf("TOO_LONG")) = (IF ScalarCount(input) > 255 THEN 1 ELSE 0)
        /\ \A i \in 1..Len(FindingsOf("TOO_LONG")) :
               FindingsOf("TOO_LONG")[i]
                 = [kind |-> "TOO_LONG", max |-> 255, actual |-> ScalarCount(input)]

IsAscii(s) == \A i \in 1..Len(s) : s[i] < 128

\* C16: validate reports UTF8_TOO_LONG exactly when the UTF-8 byte length of the
\* name exceeds 255, with max = 255 and actual = the byte length, whatever the
\* TOO_LONG rule says; for an ASCII-only name the two fire together or not at all
\* and carry the same actual: 255 times "a" is valid, 256 times "a" yields exactly
\* [TOO_LONG, UTF8_TOO_LONG]; 64 four-byte code points yield exactly
\* [UTF8_TOO_LONG{actual: 256}].
C16_Utf8TooLongCountsBytes ==
    output.called =>
        /\ Len(FindingsOf("UTF8_TOO_LONG")) = (IF Utf8Length(input) > 255 THEN 1 ELSE 0)
        /\ \A i \in 1..Len(FindingsOf("UTF8_TOO_LONG")) :
               FindingsOf("UTF8_TOO_LONG")[i]
                 = [kind |-> "UTF8_TOO_LONG", max |-> 255, actual |-> Utf8Length(input)]
        /\ IsAscii(input) =>
               /\ Len(FindingsOf("TOO_LONG")) = Len(FindingsOf("UTF8_TOO_LONG"))
               /\ \A i \in 1..Len(FindingsOf("TOO_LONG")) :
                      FindingsOf("TOO_LONG")[i].actual = FindingsOf("UTF8_TOO_LONG")[i].actual
        /\ input = Repeat(<<97>>, 255) => output.result = Ok(input)
        /\ input = Repeat(<<97>>, 256) =>
               output.result
                 = Err(<<[kind |-> "TOO_LONG", max |-> 255, actual |-> 256],
                         [kind |-> "UTF8_TOO_LONG", max |-> 255, actual |-> 256]>>)
        /\ input = Repeat(<<HI, LO>>, 64) =>
               output.result
                 = Err(<<[kind |-> "UTF8_TOO_LONG", max |-> 255, actual |-> 256]>>)

\* 64 four-byte code points were validated: 128 code units, 256 bytes
C16_Witness ==
    /\ output.called
    /\ input = Repeat(<<HI, LO>>, 64)
    /\ Kinds(output.result.error) = <<"UTF8_TOO_LONG">>

\* the eight characters " * : < > ? \ | in their canonical order
CanonicalChars == <<34, 42, 58, 60, 62, 63, 92, 124>>

\* C17: validate reports one INVALID_CHAR finding exactly when the name contains at
\* least one of the eight characters; its chars payload is the sub-list of the
\* canonical list made of the characters present in the name, in canonical order,
\* each once, and its filesystem tag is "FAT32/exFAT/NTFS".
C17_InvalidCharsInCanonicalOrder ==
    output.called =>
        LET present == SelectSeq(CanonicalChars,
                                 LAMBDA ch : \E i \in 1..Len(input) : input[i] = ch)
        IN  /\ Len(FindingsOf("INVALID_CHAR")) = (IF Len(present) > 0 THEN 1 ELSE 0)
            /\ \A i \in 1..Len(FindingsOf("INVALID_CHAR")) :
                   FindingsOf("INVALID_CHAR")[i]
                     = [kind |-> "INVALID_CHAR", chars |-> present,
                        filesystem |-> "FAT32/exFAT/NTFS"]

\* the name "|*" was validated: the payload lists "*" before "|"
C17_Witness ==
    /\ output.called
    /\ input = <<124, 42>>
    /\ FindingsOf("INVALID_CHAR")[1].chars = <<42, 124>>

\* C18: validate reports a CONTROL_CHAR finding exactly when the name contains a
\* character with code in 0x00..0x1F; there is at most one such finding however many
\* control characters the name holds, and its code is that of the leftmost one.
C18_FirstControlCharOnly ==
    output.called =>
        LET at == {i \in 1..Len(input) : input[i] >= 0 /\ input[i] <= 31}
        IN  /\ Len(FindingsOf("CONTROL_CHAR")) = (IF at # {} THEN 1 ELSE 0)
            /\ \A i \in 1..Len(FindingsOf("CONTROL_CHAR")) :
                   \E k \in at :
                       /\ \A j \in at : k <= j
                       /\ FindingsOf("CONTROL_CHAR")[i]
                            = [kind |-> "CONTROL_CHAR", code |-> input[k]]

\* a name of two different control characters, U+001F before U+0001, was validated
C18_Witness ==
    /\ output.called
    /\ input = <<31, 1>>
    /\ Len(FindingsOf("CONTROL_CHAR")) = 1
    /\ FindingsOf("CONTROL_CHAR")[1].code = 31

\* C19: validate("") returns exactly [EMPTY], validate(".") exactly
\* [RESERVED{name: "."}], validate("..") exactly [RESERVED{name: ".."}]; an EMPTY or
\* a RESERVED finding is never accompanied by another finding, and EMPTY and
\* TOO_LONG never occur together.
C19_EmptyAndReservedStandAlone ==
    output.called =>
        /\ input = <<>> => output.result = Err(<<[kind |-> "EMPTY"]>>)
        /\ input = <<DOT>> =>
               output.result = Err(<<[kind |-> "RESERVED", name |-> <<DOT>>]>>)
        /\ input = <<DOT, DOT>> =>
               output.result = Err(<<[kind |-> "RESERVED", name |-> <<DOT, DOT>>]>>)
        /\ (Len(FindingsOf("EMPTY")) > 0 \/ Len(FindingsOf("RESERVED")) > 0) =>
               Len(output.result.error) = 1
        /\ ~(Len(FindingsOf("EMPTY")) > 0 /\ Len(FindingsOf("TOO_LONG")) > 0)

\* the name ".." was validated
C19_Witness ==
    /\ output.called
    /\ input = <<DOT, DOT>>
    /\ Kinds(output.result.error) = <<"RESERVED">>

\* the kind of the error Directory.build returned, "none" on success
BuildErrorKind == IF output.result.success THEN "none" ELSE output.result.error.kind

\* C20: Directory.build(path) returns NOT_ABSOLUTE_PATH exactly when path does not
\* start with '/' (the empty string and relative paths ending in '/' included) and
\* INVALID_TRAILING_SLASH exactly when path starts with '/', ends with '/' and is
\* not "/"; both are decided before any segment is validated: no Directory is made
\* and a path with a trailing slash is never reported as INVALID_PATH_SEGMENT, also
\* when it holds invalid or empty segments.
C20_AbsoluteAndTrailingSlashFirst ==
    output.called =>
        /\ BuildErrorKind = "NOT_ABSOLUTE_PATH" <=> (input = <<>> \/ input[1] # SLASH)
        /\ BuildErrorKind = "INVALID_TRAILING_SLASH" <=>
               (Len(input) >= 2 /\ input[1] = SLASH /\ input[Len(input)] = SLASH)
        /\ BuildErrorKind \in {"NOT_ABSOLUTE_PATH", "INVALID_TRAILING_SLASH"} =>
               /\ output.result.error.path = input
               /\ nodes = <<>>
        /\ (Len(input) >= 2 /\ input[Len(input)] = SLASH) =>
               BuildErrorKind # "INVALID_PATH_SEGMENT"

\* an absolute path with an invalid segment, an empty segment and a trailing slash
\* was given to Directory.build
C20_Witness ==
    /\ output.called
    /\ Len(input) >= 4
    /\ input[1] = SLASH
    /\ input[2] = STAR
    /\ input[3] = SLASH
    /\ input[4] = SLASH
    /\ input[Len(input)] = SLASH
    /\ BuildErrorKind = "INVALID_TRAILING_SLASH"

\* ------------------------------------------------------------------ the tree, as the claims state it

\* the names on the way from the root down to n, each after a "/"
RECURSIVE JoinedNames(_, _)
JoinedNames(heap, n) ==
    IF heap[n].parent = Undefined THEN <<>>
    ELSE JoinedNames(heap, heap[n].parent) \o <<SLASH>> \o heap[n].name

HasDoubleSlash(p) == \E i \in 1..(Len(p) - 1) : p[i] = SLASH /\ p[i + 1] = SLASH

\* C21: for every Directory and File, fullPath is "/" for the root, "/" + name for a
\* direct child of the root and parent.fullPath + "/" + name for a deeper node; the
\* fullPath of a non-root node never contains "//" and never ends with "/".
C21_FullPathJoinsNames ==
    (output.called /\ output.op = "fullPath") =>
        LET n == output.on
            up == nodes[n].parent
        IN  /\ up = Undefined => output.text = <<SLASH>>
            /\ (up # Undefined /\ nodes[up].parent = Undefined) =>
                   output.text = <<SLASH>> \o nodes[n].name
            /\ (up # Undefined /\ nodes[up].parent # Undefined) =>
                   output.text = JoinedNames(nodes, up) \o <<SLASH>> \o nodes[n].name
            /\ up # Undefined =>
                   /\ ~HasDoubleSlash(output.text)
                   /\ output.text[Len(output.text)] # SLASH

\* the fullPath of a File in the root directory was read
C21_Witness ==
    /\ output.called
    /\ output.op = "fullPath"
    /\ nodes[output.on].kind = "File"
    /\ nodes[nodes[output.on].parent].parent = Undefined
    /\ output.text = <<SLASH, 97>>

\* C22: d.directory(name) and d.file(name) succeed exactly when validate(name)
\* succeeds, returning a new node with that name whose parent is d; otherwise they
\* return the finding list of the validator for name. Neither makes a filesystem
\* call, and neither changes the name or the parent of d or of another existing node.
C22_FactoriesValidateAndAttach ==
    [][(output'.ops # output.ops /\ output'.op \in {"directory", "file"}) =>
          LET d == output'.on
              v == fileNameValidate(input')
              made == Len(nodes')
          IN  /\ output'.result.success <=> v.success
              /\ v.success =>
                     /\ made = Len(nodes) + 1
                     /\ output'.result.value = made
                     /\ nodes'[made].name = input'
                     /\ nodes'[made].parent = d
                     /\ nodes'[made].kind
                          = (IF output'.op = "file" THEN "File" ELSE "Directory")
              /\ ~v.success =>
                     /\ output'.result = Err(v.error)
                     /\ made = Len(nodes)
              /\ \A i \in 1..Len(nodes) : nodes'[i] = nodes[i]
              /\ fs' = fs
              /\ callers' = callers]_vars

\* file(name) returned a File below a Directory that is not the root
C22_Witness ==
    /\ output.called
    /\ output.op = "file"
    /\ output.result.success
    /\ nodes[output.result.value].kind = "File"
    /\ nodes[output.result.value].parent = output.on
    /\ nodes[output.on].parent # Undefined

\* climbing from node i reaches a node without parent in at most k steps
RECURSIVE EndsAtRoot(_, _, _)
EndsAtRoot(heap, i, k) ==
    IF heap[i].parent = Undefined THEN TRUE
    ELSE IF k = 0 THEN FALSE
    ELSE EndsAtRoot(heap, heap[i].parent, k - 1)

\* C23: in every reachable state, every non-root Directory and every File obtained
\* through Directory.build, directory() or file() has a name on which validate
\* succeeds, every parent chain is finite and ends at a root, and the only nodes
\* with an empty name are roots without parent.
C23_NodesAreValidated ==
    \A i \in 1..Len(nodes) :
        /\ nodes[i].parent # Undefined => fileNameValidate(nodes[i].name).success
        /\ nodes[i].kind = "File" =>
               /\ nodes[i].parent # Undefined
               /\ fileNameValidate(nodes[i].name).success
        /\ EndsAtRoot(nodes, i, Len(nodes))
        /\ nodes[i].name = <<>> =>
               /\ nodes[i].parent = Undefined
               /\ nodes[i].kind = "Directory"

\* a tree with a File two levels below the root, after a file() call that the
\* validator rejected
C23_Witness ==
    /\ output.called
    /\ output.op = "file"
    /\ ~output.result.success
    /\ \E i \in 1..Len(nodes) :
           /\ nodes[i].kind = "File"
           /\ nodes[nodes[i].parent].parent # Undefined

\* the OS calls of a read() or write() that is in progress or has returned
FileCallsOf(rec) ==
    SelectSeq(rec.log, LAMBDA e : e.call \in {"readTextFile", "writeTextFile"})

\* C24: File.read() and File.write(content) each make exactly one OS call and
\* translate its outcome without retry. read returns ok(content) on success,
\* not-found as FILE_NOT_FOUND, permission-denied as PERMISSION_DENIED,
\* is-a-directory as IS_DIRECTORY, any other failure as IO_ERROR; write returns ok
\* on success, permission-denied as PERMISSION_DENIED, is-a-directory as
\* IS_DIRECTORY, not-found as PARENT_NOT_FOUND, any other failure as IO_ERROR.
C24_FileOpsTranslateOneCall ==
    \A c \in Callers :
        LET rec == callers[c]
            o == rec.log[1].outcome
        IN  /\ rec.op \in {"read", "write"} =>
                   /\ Len(rec.log) = (IF rec.pc = "done" THEN 1 ELSE 0)
                   /\ nodes[rec.target].kind = "File"
            /\ (rec.op = "read" /\ rec.pc = "done") =>
                   /\ rec.log[1].call = "readTextFile"
                   /\ rec.log[1].node = rec.target
                   /\ CASE o.class = "Ok" -> rec.result = Ok(o.content)
                        [] o.class = "NotFound" ->
                               rec.result = Err([kind |-> "FILE_NOT_FOUND"])
                        [] o.class = "PermissionDenied" ->
                               rec.result = Err([kind |-> "PERMISSION_DENIED"])
                        [] o.class = "IsADirectory" ->
                               rec.result = Err([kind |-> "IS_DIRECTORY"])
                        [] OTHER -> rec.result = Err([kind |-> "IO_ERROR",
                                                      message |-> o.message])
            /\ (rec.op = "write" /\ rec.pc = "done") =>
                   /\ rec.log[1].call = "writeTextFile"
                   /\ rec.log[1].node = rec.target
                   /\ CASE o.class = "Ok" -> rec.result = Ok(Undefined)
                        [] o.class = "PermissionDenied" ->
                               rec.result = Err([kind |-> "PERMISSION_DENIED"])
                        [] o.class = "IsADirectory" ->
                               rec.result = Err([kind |-> "IS_DIRECTORY"])
                        [] o.class = "NotFound" ->
                               rec.result = Err([kind |-> "PARENT_NOT_FOUND"])
                        [] OTHER -> rec.result = Err([kind |-> "IO_ERROR",
                                                      message |-> o.message])

\* read() of the File "/a/b/c" returned FILE_NOT_FOUND after its one call, made
\* while "/a/b" existed and "/a/b/c" did not
C24_Witness ==
    /\ callers[1].op = "read"
    /\ callers[1].pc = "done"
    /\ Len(FileCallsOf(callers[1])) = 1
    /\ callers[1].log[1].outcome.class = "NotFound"
    /\ callers[1].result = Err([kind |-> "FILE_NOT_FOUND"])
    /\ fs[ParentOf(Components(fileFullPath(nodes, callers[1].target)))] = "dir"

\* the results a call produced: its own and those of the mkdir() and mkdirp()
\* frames inside it
ResultsOf(rec) ==
    {rec.result} \cup {rec.mkdirs[i].result : i \in 1..Len(rec.mkdirs)}
                 \cup {rec.mkdirps[i].result : i \in 1..Len(rec.mkdirps)}

IsResult(r) ==
    /\ ~IsThrown(r)
    /\ \/ DOMAIN r = {"success", "value"} /\ r.success
       \/ DOMAIN r = {"success", "error"} /\ ~r.success

\* C25: for every outcome of the OS interface, failures of any class included,
\* exists(), mkdir(), mkdirp(), read() and write() complete by returning a
\* success/failure result value: no exception leaves any of them, and the
\* ExhaustiveCaseError default branches of mkdir() and mkdirp() are never taken.
C25_AlwaysAResult ==
    \A c \in Callers :
        LET rec == callers[c]
        IN  /\ \A r \in ResultsOf(rec) : ~IsThrown(r)
            /\ rec.pc = "done" =>
                   /\ rec.op \in {"exists", "mkdir", "mkdirp", "read", "write"}
                   /\ \A r \in ResultsOf(rec) : IsResult(r)
            /\ rec.pc \notin {"idle", "done"} =>
                   /\ rec.result = NotCalled
                   /\ rec.pc \in {"create", "stat", "read", "write"}

\* mkdir() returned a failure value after its Deno.mkdir reported already-exists
\* and the Deno.stat of the follow-up exists() failed with permission denied
C25_Witness ==
    /\ callers[1].op = "mkdir"
    /\ callers[1].pc = "done"
    /\ Len(callers[1].log) = 2
    /\ callers[1].log[1].outcome.class = "AlreadyExists"
    /\ callers[1].log[2].outcome.class = "PermissionDenied"
    /\ IsResult(callers[1].result)
    /\ ~callers[1].result.success

\* reading a message back: the run of decimal digits of msg from position i, the
\* number a run of digits denotes, and the finding a message stands for
HasPrefix(msg, p) == Len(msg) >= Len(p) /\ SubSeq(msg, 1, Len(p)) = p

HasSuffix(msg, p) == Len(msg) >= Len(p) /\ SubSeq(msg, Len(msg) - Len(p) + 1, Len(msg)) = p

DigitsAt(msg, i) ==
    LET stop == {j \in i..(Len(msg) + 1) :
                    j = Len(msg) + 1 \/ msg[j] < 48 \/ msg[j] > 57}
        first == CHOOSE j \in stop : \A k \in stop : j <= k
    IN  SubSeq(msg, i, first - 1)

RECURSIVE ParseNat(_)
ParseNat(d) ==
    IF Len(d) = 0 THEN 0
    ELSE ParseNat(SubSeq(d, 1, Len(d) - 1)) * 10 + (d[Len(d)] - 48)

NumberAt(msg, i) == ParseNat(DigitsAt(msg, i))

FindingOfMessage(msg) ==
    IF msg = EmptyMessage THEN [kind |-> "EMPTY"]
    ELSE IF msg = SeparatorMessage THEN [kind |-> "CONTAINS_PATH_SEPARATOR"]
    ELSE IF msg = NullMessage THEN [kind |-> "CONTAINS_NULL"]
    ELSE IF HasPrefix(msg, ExceedsText)
    THEN LET max == DigitsAt(msg, Len(ExceedsText) + 1)
             rest == SubSeq(msg, Len(ExceedsText) + Len(max) + 1, Len(msg))
         IN  IF HasPrefix(rest, CharactersOpenText) /\ HasSuffix(rest, CharactersCloseText)
             THEN [kind |-> "TOO_LONG", max |-> ParseNat(max),
                   actual |-> NumberAt(rest, Len(CharactersOpenText) + 1)]
             ELSE IF HasPrefix(rest, BytesOpenText) /\ HasSuffix(rest, BytesCloseText)
             THEN [kind |-> "UTF8_TOO_LONG", max |-> ParseNat(max),
                   actual |-> NumberAt(rest, Len(BytesOpenText) + 1)]
             ELSE [kind |-> "UNKNOWN"]
    ELSE IF HasPrefix(msg, ControlOpenText) /\ HasSuffix(msg, ControlCloseText)
    THEN [kind |-> "CONTROL_CHAR", code |-> NumberAt(msg, Len(ControlOpenText) + 1)]
    ELSE IF HasPrefix(msg, InvalidCharsText \o WindowsFilesystemsText \o <<58, 32>>)
    THEN LET from == Len(InvalidCharsText) + Len(WindowsFilesystemsText) + 3
             parts == Split(SubSeq(msg, from, Len(msg)), 32)
         IN  IF \A k \in 1..Len(parts) : Len(parts[k]) = 1
             THEN [kind |-> "INVALID_CHAR",
                   chars |-> [k \in 1..Len(parts) |-> parts[k][1]],
                   filesystem |-> "FAT32/exFAT/NTFS"]
             ELSE [kind |-> "UNKNOWN"]
    ELSE IF HasPrefix(msg, <<34>>) /\ HasSuffix(msg, ReservedText)
    THEN [kind |-> "RESERVED", name |-> SubSeq(msg, 2, Len(msg) - Len(ReservedText))]
    ELSE [kind |-> "UNKNOWN"]

BothValidated == output.called /\ "messages" \in DOMAIN output

StructuredFindings == IF output.result.success THEN <<>> ELSE output.result.error

\* C26: the plain-string validator and the structured validator are the same rule
\* set. For every name the string list has exactly one message per structured
\* finding, in the same order and for the same rule and payload, and it is empty
\* exactly when the structured validator succeeds, although the string variant
\* tests the length limit before the empty name.
C26_StringsMirrorFindings ==
    BothValidated =>
        /\ Len(output.messages) = Len(StructuredFindings)
        /\ \A i \in 1..Len(output.messages) :
               FindingOfMessage(output.messages[i]) = StructuredFindings[i]
        /\ (output.messages = <<>>) <=> output.result.success

\* a name of 256 units that starts with a control character: three messages, the
\* first for the length limit, the second for the control character
C26_Witness ==
    /\ BothValidated
    /\ Len(output.messages) = 3
    /\ StructuredFindings[1].kind = "TOO_LONG"
    /\ StructuredFindings[2].kind = "CONTROL_CHAR"
    /\ StructuredFindings[3].kind = "UTF8_TOO_LONG"
    /\ FindingOfMessage(output.messages[2]) = [kind |-> "CONTROL_CHAR", code |-> 31]

\* the calls of a mkdirp() form a sequential chain: the creates go down the chain
\* of the target from the root, one per node, and a stat directly follows the
\* create that reported already-exists on the same node
SequentialChain(rec) ==
    LET chain == chainFromRoot(nodes, rec.target)
        creates == CreatesOf(rec)
    IN  /\ \A k \in 1..Len(creates) : creates[k].node = chain[k]
        /\ \A k \in 1..Len(rec.log) :
               rec.log[k].call = "stat" =>
                   /\ k > 1
                   /\ rec.log[k - 1].call = "mkdir"
                   /\ rec.log[k - 1].node = rec.log[k].node
                   /\ rec.log[k - 1].outcome.class = "AlreadyExists"

MkdirpBounded ==
    \A c \in Callers :
        LET rec == callers[c]
            d == Len(chainFromRoot(nodes, rec.target)) - 1
        IN  rec.op = "mkdirp" =>
                /\ Len(CreatesOf(rec)) <= d + 1
                /\ Len(StatsOf(rec)) <= d + 1
                /\ Len(rec.log) = Len(CreatesOf(rec)) + Len(StatsOf(rec))
                /\ \A i, j \in 1..Len(CreatesOf(rec)) :
                       CreatesOf(rec)[i].node = CreatesOf(rec)[j].node => i = j
                /\ SequentialChain(rec)
                /\ rec.pc \in {"create", "stat", "done"}

\* C27: whatever the OS interface answers, a mkdirp() call on a Directory with d
\* ancestors terminates after a bounded sequential chain of OS calls: at most d+1
\* create calls and at most d+1 stat calls, never two calls in flight at the same
\* time and never a second create call for the same node.
C27_MkdirpTerminatesBounded ==
    /\ []MkdirpBounded
    /\ (callers[1].op = "mkdirp") ~> (callers[1].pc = "done")

\* mkdirp() on "/a/b/c" returned after four creates and four stats: every node of
\* the chain was there already
C27_Witness ==
    /\ callers[1].op = "mkdirp"
    /\ callers[1].pc = "done"
    /\ Len(chainFromRoot(nodes, callers[1].target)) = 4
    /\ Len(CreatesOf(callers[1])) = 4
    /\ Len(StatsOf(callers[1])) = 4

\* the nodes whose create call of this call succeeded
CreatedNodes(rec) ==
    {rec.log[k].node : k \in {i \in 1..Len(rec.log) :
        rec.log[i].call = "mkdir" /\ rec.log[i].outcome.class = "Ok"}}

\* the OS call a step of a caller completed, if it completed one
Completed(before, after) ==
    IF Len(after.log) = Len(before.log) + 1 THEN <<after.log[Len(after.log)]>> ELSE <<>>

DirectoryOps == {"exists", "mkdir", "mkdirp"}

\* a step of a directory operation changes the filesystem only by the directory
\* of a create call that succeeded
FrameOfStep(before, after) ==
    LET done == Completed(before, after)
    IN  IF done # <<>> /\ done[1].call = "mkdir" /\ done[1].outcome.class = "Ok"
        THEN /\ fs[PathOf(done[1].node)] = "none"
             /\ fs' = [fs EXCEPT ![PathOf(done[1].node)] = "dir"]
        ELSE fs' = fs

\* what a returned call left behind, by its result
FrameOfCall(rec) ==
    LET chain == chainFromRoot(nodes, rec.target)
        failing == rec.mkdirs[Len(rec.mkdirs)].node
    IN  /\ rec.op = "exists" => CreatedNodes(rec) = {}
        /\ (rec.op = "mkdir" /\ rec.result # Ok(TRUE)) => CreatedNodes(rec) = {}
        /\ (rec.op = "mkdir" /\ rec.result = Ok(TRUE)) => CreatedNodes(rec) = {rec.target}
        /\ (rec.op = "mkdirp" /\ ~rec.result.success) =>
               /\ Len(rec.mkdirs) > 0
               /\ CreatedNodes(rec) \subseteq
                      {chain[k] : k \in 1..(IndexIn(chain, failing) - 1)}
               /\ \A k \in IndexIn(chain, failing)..Len(chain) :
                      chain[k] \notin CreatedNodes(rec)
        /\ env.steps = 0 =>
               /\ \A d \in CreatedNodes(rec) : fs[PathOf(d)] = "dir"
               /\ \A q \in FsPaths :
                      q \notin {PathOf(d) : d \in CreatedNodes(rec)} =>
                          fs[q] = rec.fsAtStart[q]

\* C28: the only filesystem changes made by the directory operations are the
\* directories whose OS create call succeeded. exists() changes nothing; a mkdir()
\* that returns anything other than ok(true) has created, removed or altered no
\* entry; a mkdirp() that fails at some node leaves in place the ancestors it
\* created before the failure and has created nothing at or below the failing node.
C28_OnlySuccessfulCreatesChange ==
    [][\A c \in Callers :
          (callers'[c] # callers[c] /\ callers'[c].op \in DirectoryOps) =>
              /\ FrameOfStep(callers[c], callers'[c])
              /\ callers'[c].pc = "done" => FrameOfCall(callers[c])'
      ]_vars

\* alone in the filesystem, mkdirp() on "/a/b/c" with "/a" missing and the create
\* of "/a/b" failing: "/a" was created and is still there, "/a/b" and "/a/b/c" are not
C28_Witness ==
    /\ callers[1].op = "mkdirp"
    /\ callers[1].pc = "done"
    /\ ~callers[1].result.success
    /\ env.steps = 0
    /\ PathOf(callers[1].target) = <<<<97>>, <<98>>, <<99>>>>
    /\ callers[1].fsAtStart[<<<<97>>>>] = "none"
    /\ Cardinality(CreatedNodes(callers[1])) = 1
    /\ fs[<<<<97>>>>] = "dir"
    /\ fs[<<<<97>>, <<98>>>>] = "none"
    /\ fs[<<<<97>>, <<98>>, <<99>>>>] = "none"

\* the calls of a mkdir() so far: one create, then at most one stat, made on the
\* same Directory after the create reported already-exists
MkdirCalls(rec) ==
    /\ rec.pc = "create" => rec.log = <<>>
    /\ rec.pc = "stat" =>
           /\ Len(rec.log) = 1
           /\ rec.log[1].call = "mkdir"
           /\ rec.log[1].outcome.class = "AlreadyExists"
    /\ rec.pc = "done" =>
           /\ Len(CreatesOf(rec)) = 1
           /\ Len(StatsOf(rec)) <= 1
           /\ Len(rec.log) = 1 + Len(StatsOf(rec))
           /\ rec.log[1].call = "mkdir"
           /\ rec.log[1].node = rec.target
           /\ Len(rec.log) = 2 =>
                  /\ rec.log[1].outcome.class = "AlreadyExists"
                  /\ rec.log[2].call = "stat"
                  /\ rec.log[2].node = rec.target
           /\ rec.result = Ok(TRUE) =>
                  /\ Len(rec.log) = 1
                  /\ rec.log[1].outcome.class = "Ok"
           /\ rec.result = Ok(FALSE) =>
                  /\ Len(rec.log) = 2
                  /\ rec.log[2].outcome.class = "Ok"
                  /\ rec.log[2].outcome.isDirectory

\* C29: a single mkdir() call issues exactly one OS create call and at most one
\* stat call, the stat only after the create reported already-exists; it returns
\* ok(true) only if its own create call succeeded (never for a directory another
\* process created) and ok(false) only if its follow-up stat observed a directory
\* at the path.
C29_MkdirOneCreateOneCheck ==
    [][\A c \in Callers :
          (callers'[c] # callers[c] /\ callers'[c].op = "mkdir") =>
              /\ MkdirCalls(callers'[c])
              /\ callers'[c].result = Ok(TRUE) =>
                     /\ fs[PathOf(callers[c].target)] = "none"
                     /\ fs'[PathOf(callers[c].target)] = "dir"
              /\ callers'[c].result = Ok(FALSE) =>
                     /\ fs[PathOf(callers[c].target)] = "dir"
                     /\ fs' = fs
      ]_vars

\* mkdir() on a path that was free at first and where another process created the
\* directory: the create reported already-exists, the stat saw it, ok(false)
C29_Witness ==
    /\ callers[1].op = "mkdir"
    /\ callers[1].pc = "done"
    /\ callers[1].result = Ok(FALSE)
    /\ PathOf(callers[1].target) \in env.made
    /\ env.fs0[PathOf(callers[1].target)] = "none"
    /\ Len(CreatesOf(callers[1])) = 1
    /\ Len(StatsOf(callers[1])) = 1

\* the positions of the findings of a kind in the list validate returned
PositionsOf(kind) ==
    {i \in 1..Len(StructuredFindings) : StructuredFindings[i].kind = kind}

\* the control characters of the name before its first NUL
ControlBeforeFirstNul(name) ==
    {i \in 1..Len(name) :
        /\ name[i] # NUL
        /\ name[i] <= MaxControlCode
        /\ \A j \in 1..(i - 1) : name[j] # NUL}

\* C30: whenever validate reports CONTAINS_NULL it also reports a CONTROL_CHAR
\* finding later in the same list, and that finding's code is 0 exactly when no
\* other control character precedes the first NUL in the name; a name containing
\* NUL never yields CONTAINS_NULL alone.
C30_NullComesWithControlChar ==
    (output.called /\ PositionsOf("CONTAINS_NULL") # {}) =>
        /\ Includes(input, NUL)
        /\ Cardinality(PositionsOf("CONTROL_CHAR")) = 1
        /\ \A i \in PositionsOf("CONTAINS_NULL"), j \in PositionsOf("CONTROL_CHAR") :
               /\ i < j
               /\ (StructuredFindings[j].code = 0) <=>
                      (ControlBeforeFirstNul(input) = {})
        /\ Len(StructuredFindings) >= 2

\* a name with the control character 1 before its NUL: CONTAINS_NULL, then
\* CONTROL_CHAR with code 1
C30_Witness ==
    /\ output.called
    /\ input = <<1, NUL>>
    /\ PositionsOf("CONTAINS_NULL") = {1}
    /\ StructuredFindings[2] = [kind |-> "CONTROL_CHAR", code |-> 1]
====
